---- MODULE Spec2Model ----
(***************************************************************************)
(* The resource lifecycle manager of the waypoint plugin SDK               *)
(* (framework/resource): Manager.CreateAll, Manager.DestroyAll,            *)
(* Manager.LoadState / State, Manager.StatusAll, Manager.StatusReport and  *)
(* Resource.SetState, with the create, destroy and status mappers of       *)
(* Resource, Manager.Validate, the value providers, the declared and       *)
(* destroyed resources collectors and healthSummary.                       *)
(*                                                                         *)
(* The manager is single threaded: an operation runs from its entry to its *)
(* return before the next one starts.  An operation that calls user        *)
(* callbacks is a sequence of steps (pc), one per callback invocation and  *)
(* one per callback return, so that the state "during" an operation is a   *)
(* state of the model.                                                     *)
(***************************************************************************)
EXTENDS Integers, Sequences, FiniteSets, Bags, TLC

\* ------------------------------------------------------------------ bounds
\* the registered resource names (m.resources keys)
Resources == {"A", "B", "C"}
\* the field values a callback or SetState writes into a state struct; the
\* manager never inspects them
Values == {"v"}
\* the field value of a freshly allocated state struct
Zero == "zero"
\* cap on the global SetState logical clock
MaxClock == 2
\* cap on the number of operations called on the manager in one run
MaxOps == 3

\* rank of a name; the create dependencies drawn in Init go from a lower
\* to a higher rank, which makes every drawn dependency graph acyclic
Rank == [r \in Resources |-> CASE r = "A" -> 1 [] r = "B" -> 2 [] OTHER -> 3]

\* -------------------------------------------------------------- Go values
\* An interface{} holding a resource state: the nil interface, a nil
\* pointer of the state type, or a pointer to a struct whose field is val.
NilV == [kind |-> "nil", val |-> Zero]
TypedNilV == [kind |-> "typednil", val |-> Zero]
Ptr(v) == [kind |-> "ptr", val |-> v]
StateValues == {NilV, TypedNilV} \cup {Ptr(v) : v \in Values \cup {Zero}}

\* the kinds of state type given to WithState: none, a proto.Message, or a
\* plain struct that is neither a proto.Message nor a ProtoMarshaler
StateTypes == {"none", "proto", "plain"}

Range(s) == {s[i] : i \in 1..Len(s)}
Reverse(s) == [i \in 1..Len(s) |-> s[Len(s) + 1 - i]]
IsPrefix(p, s) == Len(p) <= Len(s) /\ \A i \in 1..Len(p) : p[i] = s[i]

\* all orderings of a set of names, as sequences without repetition
Perms(S) == {s \in [1..Cardinality(S) -> S] : \A i, j \in 1..Cardinality(S) : i # j => s[i] # s[j]}
\* the largest member of a non-empty set of numbers
Max(S) == CHOOSE x \in S : \A y \in S : y <= x
\* the number of positions of s that satisfy Test
CountIn(s, Test(_)) == Cardinality({i \in 1..Len(s) : Test(s[i])})

VARIABLES
    \* ---- Resource fields, per registered resource
    stateType,          \* Resource.stateType (kind)
    createFunc,         \* Resource.createFunc: the other resources' state types it takes
    statusFunc,         \* Resource.statusFunc # nil
    named,              \* Resource.name # ""
    createNil,          \* Resource.createFunc = nil
    destroyFunc,        \* Resource.destroyFunc # nil
    createUses,         \* resources whose create callback takes the value provider's value
    destroyUses,        \* resources whose destroy callback takes the value provider's value
    stateValue,         \* Resource.stateValue
    setStateClock,      \* Resource.setStateClock
    statusResp,         \* Resource.statusResp # nil
    statusResources,    \* Resource.statusResp.Resources
    \* ---- Manager and package state
    createState,        \* Manager.createState: [isNil, Order]
    setStateCallOrder,  \* package variable setStateCallOrder
    valueProviders,     \* len(Manager.valueProviders): 0 or 1
    dcr,                \* Manager.dcr: [isNil, DeclaredResources]
    dtr,                \* Manager.dtr: [isNil, DestroyedResources]
    providerOnce,       \* the FuncOnce wrapper built by the last mapperArgs has run
    \* ---- position of the running operation
    pc,                 \* "idle" or the step inside CreateAll / DestroyAll
    op,                 \* the operation running, or the last one that returned
    cur,                \* the resource whose callback is running
    arg,                \* the value argument given to CreateAll
    nOps,               \* operations called so far
    destroyOrder,       \* DestroyAll's local cs.Order
    \* ---- what the callbacks observed (the tests' destroyOrder and friends)
    createCalls,        \* create callbacks invoked by the current CreateAll, in order
    createOk,           \* create callbacks that returned nil, in order of return
    destroyCalls,       \* destroy callbacks invoked by the current DestroyAll, in order
    destroyOk,          \* resources whose destroy callback returned nil in this DestroyAll
    destroyErr,         \* error of the current DestroyAll
    resultErr,          \* error returned by the last operation (<<>> is nil)
    inferred,           \* the current DestroyAll had no recorded order and inferred one
    clearedStatus,      \* resources whose status response this DestroyAll cleared
    lineage,            \* "created": the manager holds the result of a successful
                        \* CreateAll, "loaded": moved to a fresh manager by LoadState;
                        \* "destroying", "destroyingLoaded": the current DestroyAll
                        \* started there
    touched,            \* resources of this manager that were created, set or loaded
    providerCalls,      \* calls of the value provider during the current operation
    statusCalls,        \* status callbacks invoked by the current operation
    reports,            \* the reports StatusAll returned
    report,             \* the report StatusReport returned
    summaryIn,          \* the argument of a healthSummary call
    summaryOut,         \* its result
    firstOrder,         \* the create order recorded by the first CreateAll of this
                        \* manager that returned nil, <<>> before it
    \* ---- the context given to the running operation
    cancelledOp,        \* the number of the operation whose context was cancelled
                        \* while it ran, 0 when no context was cancelled
    \* ---- NewManager by itself
    options,            \* the WithResource options given to NewManager, in order
    managerResources,   \* Manager.resources as NewManager left it
    \* ---- a call through a funcspec function
    fsIn,               \* the spec, the callback and the argument of the call
    fsOut,              \* what the call delivered
    \* ---- the platform client stub of a plugin connection
    probes,             \* what the plugin answers to each capability probe
    stub,               \* the result of PlatformPlugin.GRPCClient
    specRPCs,           \* spec RPCs the plugin served on this connection
    accessed,           \* results of the function accessors called on the stub
    \* ---- the client of an exec session
    execIn,             \* the messages the input stream delivers, in order
    execPos,            \* how many of them the forwarding goroutine has handled
    execPc,             \* position of the goroutine that forwards session input
    wsUpdates,          \* the buffered channel ExecSessionInfo.WindowSizeUpdates
    wsTaken,            \* the updates the session has received from the channel
    stdinW,             \* what the session has read from the stdin pipe, in order
    \* ---- the sub-stream shims of one outer call
    ctxDone,            \* the context of the outer call is cancelled
    sessionReads,       \* the exec session still reads the stdin pipe
    srv,                \* execServer: Input's reader goroutine and loop, Output
    logs,               \* the log viewer shims: the forwarder and NextLogBatch
    \* ---- the function of a client stub and its Cleanup
    client              \* the RPCs made through the function, the cleanup chain

resVars == <<stateType, createFunc, statusFunc, stateValue, setStateClock, statusResp>>
mgrVars == <<createState, setStateCallOrder>>
opVars == <<pc, op, cur, arg, nOps, destroyOrder>>
logVars == <<createCalls, createOk, destroyCalls, destroyOk, destroyErr, resultErr,
            inferred, clearedStatus, lineage, touched>>
\* the options given to NewResource and NewManager besides the wiring
optVars == <<named, createNil, destroyFunc, createUses, destroyUses, valueProviders>>
\* the collectors, the provider wrapper and the status responses
outVars == <<dcr, dtr, providerOnce, providerCalls, statusResources, statusCalls,
            reports, report>>
sumVars == <<summaryIn, summaryOut>>
\* what lies outside the manager: the caller's context, the options before
\* NewManager, funcspec calls, the plugin client stub and the exec session
regVars == <<options, managerResources>>
fsVars == <<fsIn, fsOut>>
stubVars == <<probes, stub, specRPCs, accessed>>
execVars == <<execIn, execPos, execPc, wsUpdates, wsTaken, stdinW>>
shimVars == <<ctxDone, sessionReads, srv, logs>>
callVars == <<client>>
extVars == <<cancelledOp, regVars, fsVars, stubVars, callVars, execVars, shimVars>>
\* everything of the manager
managerVars == <<resVars, mgrVars, opVars, logVars, optVars, outVars, sumVars, firstOrder>>
vars == <<managerVars, extVars>>

\* the resource definitions never change after construction, and no
\* operation of the manager touches what lies outside it
UnchangedOptions == UNCHANGED <<stateType, createFunc, statusFunc, optVars, sumVars, extVars>>
UnchangedDefs == UnchangedOptions /\ UNCHANGED firstOrder

\* --------------------------------------------------------------- helpers
\* createState values
NoCreateState == [isNil |-> TRUE, Order |-> <<>>]
NewCreateState(order) == [isNil |-> FALSE, Order |-> order]

\* an initState that always allocates a zero struct
initStateAlwaysZero(r, zero) ==
    IF stateType[r] # "none" THEN Ptr(Zero) ELSE stateValue[r]

\* Resource.initState: a zero struct when zero is true, a nil pointer of the
\* state type when it is false; nothing for a resource without state type
initState(r, zero) ==
    IF stateType[r] # "none"
    THEN (IF zero THEN Ptr(Zero) ELSE TypedNilV)
    ELSE stateValue[r]

\* Resource.State() == nil as Go evaluates it: true only of the nil interface
StateIsNil(r) == stateValue[r] = NilV

\* a caller starts an operation on the idle manager
StartOp(name) ==
    /\ pc = "idle"
    /\ nOps < MaxOps
    /\ nOps' = nOps + 1
    /\ op' = name

\* an operation without callbacks starts: what the callbacks of the
\* previous operation observed is forgotten
ResetLogs ==
    /\ arg' = Zero
    /\ destroyOrder' = <<>>
    /\ createCalls' = <<>>
    /\ createOk' = <<>>
    /\ destroyCalls' = <<>>
    /\ destroyOk' = {}
    /\ destroyErr' = <<>>
    /\ inferred' = FALSE
    /\ clearedStatus' = {}
    /\ providerCalls' = 0

\* errors
CreateError(r) == [kind |-> "create", name |-> r]
DestroyError(r) == [kind |-> "destroy", name |-> r]
RollbackError(e) == [kind |-> "rollback", name |-> e.name]
ValidateError == [kind |-> "validate", name |-> "manager"]
StatusError(r) == [kind |-> "status", name |-> r]
UnknownResourceError(n) == [kind |-> "unknown resource", name |-> n]
LoadError(n) == [kind |-> "load", name |-> n]
SummaryError == [kind |-> "no resources", name |-> "manager"]
PanicError == [kind |-> "panic", name |-> "manager"]

\* a Resource.Validate that only checks the name
ResourceValidateNameOnly(r) == named[r]

\* Resource.Validate returns nil: the name and the create callback are set
ResourceValidate(r) == named[r] /\ ~createNil[r]

\* Manager.Validate returns nil: every resource validates
Validate == \A r \in Resources : ResourceValidate(r)

\* the collectors given to WithDeclaredResourcesResp and
\* WithDestroyedResourcesResp: none, or a response with its list of entries.
\* The list is kept as a bag of entries: the manager appends to it while
\* ranging over the map m.resources, so the order of the entries of one
\* call is never the same from run to run and carries no information.
NoCollector == [isNil |-> TRUE, list |-> EmptyBag]
Collector(list) == [isNil |-> FALSE, list |-> list]

\* the health message: nothing, "All N resources are reporting H", or the
\* list of "count type health" entries
NoMessage == [kind |-> "", entries |-> <<>>]

\* the *pb.StatusReport that StatusReport returns: nil, or (as a list of
\* one) the overall health, its message and the resources' reports
NoReport == <<>>
\* no result of healthSummary yet; a result is held as a list of one
NoSummary == <<>>

\* the manager has a value provider, the callback of r takes its value and
\* the FuncOnce wrapper of this run has not called it yet: the solver calls
\* the provider before the callback
ProviderRuns(r, uses) == valueProviders > 0 /\ r \in uses /\ ~providerOnce

\* what the last StatusAll or StatusReport returned is forgotten too
ResetStatusLogs ==
    /\ statusCalls' = {}
    /\ reports' = <<>>
    /\ report' = NoReport

\* ------------------------------------------------------------------- Init
\* no context was cancelled
NoCancel == cancelledOp = 0
\* NewManager is not under study by itself
NoRegistration == options = <<>> /\ managerResources = <<>>
\* no funcspec function was built or called
NoFuncCall == fsIn = <<>> /\ fsOut = <<>>
\* no plugin connection exists
NoPluginClient == probes = <<>> /\ stub = <<>> /\ specRPCs = <<>> /\ accessed = <<>>
\* no exec session exists
NoExecSession ==
    /\ execIn = <<>> /\ execPos = 0 /\ execPc = "none"
    /\ wsUpdates = <<>> /\ wsTaken = <<>> /\ stdinW = <<>>
\* only the manager exists
\* no exec server runs
NoExecServer ==
    srv = [chunks |-> 0, eof |-> FALSE, read |-> 0, reader |-> "none",
           closedCh |-> 0, loop |-> "none", ws |-> 0, output |-> "none"]
\* no log viewer exists
NoLogViewer ==
    logs = [events |-> 0, output |-> 0, closed |-> FALSE, fwd |-> "none",
            stream |-> 0, server |-> "none", viewing |-> FALSE, viewed |-> 0,
            dropped |-> 0]
\* no function of a client stub was built
NoClientFunc ==
    client = [f |-> <<>>, runs |-> <<>>, rpcs |-> 0, pc |-> "none", closes |-> 0,
              rpc |-> <<>>, result |-> <<>>]
\* no outer call with sub-streams is open
NoShims == ctxDone = FALSE /\ sessionReads = FALSE /\ NoExecServer /\ NoLogViewer
OnlyManager ==
    /\ NoCancel /\ NoRegistration /\ NoFuncCall /\ NoPluginClient /\ NoExecSession
    /\ NoShims /\ NoClientFunc

\* NewManager(WithResource(...), ...): no resource has state or a status
\* response, there is no creation state and no operation has run
Constructed ==
    /\ stateValue = [r \in Resources |-> NilV]
    /\ setStateClock = [r \in Resources |-> 0]
    /\ statusResp = [r \in Resources |-> FALSE]
    /\ createState = NoCreateState
    /\ setStateCallOrder = 0
    /\ pc = "idle"
    /\ op = "none"
    /\ cur = "none"
    /\ arg = Zero
    /\ nOps = 0
    /\ destroyOrder = <<>>
    /\ createCalls = <<>>
    /\ createOk = <<>>
    /\ destroyCalls = <<>>
    /\ destroyOk = {}
    /\ destroyErr = <<>>
    /\ resultErr = <<>>
    /\ inferred = FALSE
    /\ clearedStatus = {}
    /\ lineage = "none"
    /\ touched = {}
    /\ providerOnce = FALSE
    /\ providerCalls = 0
    /\ statusResources = [r \in Resources |-> <<>>]
    /\ statusCalls = {}
    /\ reports = <<>>
    /\ report = NoReport
    /\ summaryOut = NoSummary
    /\ firstOrder = <<>>

\* every acyclic wiring of the three resources through their state types;
\* every resource is named and has a create and a destroy callback, A has a
\* status callback, and the manager has no value provider and no collector
Init ==
    /\ stateType \in [Resources -> StateTypes]
    /\ createFunc \in [Resources -> SUBSET Resources]
    /\ \A r \in Resources : \A d \in createFunc[r] :
           Rank[d] < Rank[r] /\ stateType[d] # "none"
    /\ statusFunc = [r \in Resources |-> r = "A"]
    /\ named = [r \in Resources |-> TRUE]
    /\ createNil = [r \in Resources |-> FALSE]
    /\ destroyFunc = [r \in Resources |-> TRUE]
    /\ createUses = {}
    /\ destroyUses = {}
    /\ valueProviders = 0
    /\ dcr = NoCollector
    /\ dtr = NoCollector
    /\ summaryIn = <<>>
    /\ OnlyManager
    /\ Constructed

\* ----------------------------------------------------- serialized state
\* Resource.proto: the Raw field of the serialized resource state.  Only a
\* proto.Message is encoded; a nil pointer of a message type encodes as
\* the empty message.  "nil" is no Raw field.
RawNil == [isNil |-> TRUE, val |-> Zero]
Raw(v) == [isNil |-> FALSE, val |-> v]
ResourceProto(r) ==
    IF stateType[r] = "proto" /\ ~StateIsNil(r)
    THEN Raw(stateValue[r].val)
    ELSE RawNil

\* json.Marshal(r.State()): null for a nil interface and for a nil pointer
StateJson(r) == IF stateValue[r].kind = "ptr" THEN stateValue[r].val ELSE "null"

\* the options WithType, WithPlatform and WithCategoryDisplayHint of r; the
\* type defaults to the name
resourceType(r) == r
platform(r) == "test"
categoryDisplayHint(r) == "OTHER"

\* Resource.DeclaredResource: the entry of r in a declared resources
\* response, with the state as it is when the entry is made
DeclaredResource(r) ==
    [Name |-> r, Type |-> resourceType(r), Platform |-> platform(r),
     CategoryDisplayHint |-> categoryDisplayHint(r),
     State |-> ResourceProto(r), StateJson |-> StateJson(r)]

\* Resource.DestroyedResource: the entry of r in a destroyed resources response
DestroyedResource(r) ==
    [Name |-> r, Type |-> resourceType(r), Platform |-> platform(r),
     CategoryDisplayHint |-> categoryDisplayHint(r),
     State |-> ResourceProto(r), StateJson |-> StateJson(r)]

\* one declared (destroyed) entry for each of the resources S
DeclaredEntries(S) == SetToBag({DeclaredResource(r) : r \in S})
DestroyedEntries(S) == SetToBag({DestroyedResource(r) : r \in S})

\* the orders in which a loop over m.resources may visit the resources;
\* the loop is skipped when skip holds
MapOrders(skip) == IF skip THEN {<<>>} ELSE Perms(Resources)

\* a CreateAll that replaces what the collector holds
DeclareAllReplacing(c) ==
    IF c.isNil THEN c ELSE Collector(DeclaredEntries(Resources))

\* the end of CreateAll: when a declared resources response was given, one
\* declared resource per resource of the manager is appended to it
DeclareAll(c) ==
    IF c.isNil THEN c ELSE Collector(c.list (+) DeclaredEntries(Resources))

\* -------------------------------------------------------------- CreateAll
\* CreateAll up to finalFunc.Call: validate, reset the creation state, wrap
\* the value providers and build the create mapper of every resource, which
\* zeroes the state of every resource that has a state type
CreateAllBegin ==
    /\ StartOp("CreateAll")
    /\ \E v \in Values : arg' = v
    /\ cur' = "none"
    /\ createCalls' = <<>>
    /\ createOk' = <<>>
    /\ destroyCalls' = <<>>
    /\ destroyOk' = {}
    /\ destroyErr' = <<>>
    /\ inferred' = FALSE
    /\ clearedStatus' = {}
    /\ destroyOrder' = <<>>
    /\ providerCalls' = 0
    /\ statusCalls' = {}
    /\ reports' = <<>>
    /\ report' = NoReport
    /\ IF Validate
       THEN /\ createState' = NewCreateState(<<>>)
            /\ stateValue' = [r \in Resources |-> initState(r, TRUE)]
            /\ providerOnce' = FALSE
            /\ resultErr' = <<>>
            /\ lineage' = "none"
            /\ pc' = "create"
       ELSE /\ resultErr' = <<ValidateError>>
            /\ pc' = "idle"
            /\ UNCHANGED <<createState, stateValue, providerOnce, lineage>>
    /\ UnchangedDefs
    /\ UNCHANGED <<setStateClock, statusResp, setStateCallOrder, touched,
                   dcr, dtr, statusResources>>

\* a solver that calls the create mappers in any order
CreateReadyAnyOrder(r) == r \notin Range(createCalls)

\* a solver that invokes nothing more once the context of the running
\* operation is cancelled
CreateReadyUntilCancelled(r) ==
    /\ r \notin Range(createCalls)
    /\ createFunc[r] \subseteq Range(createOk)
    /\ cancelledOp # nOps

\* the solver may call the create mapper of r once every input of r is
\* available: the state types it takes are outputs of mappers that returned
CreateReady(r) ==
    /\ r \notin Range(createCalls)
    /\ createFunc[r] \subseteq Range(createOk)

\* a create mapper that leaves the order alone when it starts
OrderAtInvokeUnrecorded(order, r) == order

\* what the create mapper of r does to the order before it calls the create
\* callback: it appends the name
OrderAtInvoke(order, r) == Append(order, r)

\* the create mapper of r starts: the value provider is called first when
\* the callback takes its value and it has not run; the mapper appends r to
\* the order, then calls the create callback
CreateInvoke(r) ==
    /\ pc = "create"
    /\ CreateReady(r)
    /\ createState' = [createState EXCEPT !.Order = OrderAtInvoke(@, r)]
    /\ createCalls' = Append(createCalls, r)
    /\ touched' = touched \cup {r}
    /\ providerOnce' = (providerOnce \/ ProviderRuns(r, createUses))
    /\ providerCalls' = (IF ProviderRuns(r, createUses) THEN providerCalls + 1
                         ELSE providerCalls)
    /\ cur' = r
    /\ pc' = "createCall"
    /\ UnchangedDefs
    /\ UNCHANGED <<stateValue, setStateClock, statusResp, setStateCallOrder,
                   op, arg, nOps, destroyOrder, createOk, destroyCalls, destroyOk,
                   destroyErr, resultErr, inferred, clearedStatus, lineage,
                   dcr, dtr, statusResources, statusCalls, reports, report>>

\* the create callback of cur returns nil, having filled in its state (when
\* the resource has one), or returns an error, which ends finalFunc.Call
CreateReturn ==
    /\ pc = "createCall"
    /\ \E ok \in BOOLEAN :
        IF ok
        THEN /\ stateValue' = [stateValue EXCEPT ![cur] =
                    IF stateType[cur] # "none" THEN Ptr(arg) ELSE @]
             /\ createOk' = Append(createOk, cur)
             /\ resultErr' = resultErr
             /\ pc' = "create"
        ELSE /\ stateValue' = stateValue
             /\ createOk' = createOk
             /\ resultErr' = <<CreateError(cur)>>
             /\ pc' = "createFailed"
    /\ cur' = "none"
    /\ UnchangedDefs
    /\ UNCHANGED <<setStateClock, statusResp, createState, setStateCallOrder,
                   op, arg, nOps, destroyOrder, createCalls, destroyCalls, destroyOk,
                   destroyErr, inferred, clearedStatus, lineage, touched, outVars>>

\* finalFunc.Call returned without error: the declared resources response
\* is populated and CreateAll returns nil
CreateAllReturns ==
    /\ pc = "create"
    /\ \A r \in Resources : r \in Range(createCalls)
    /\ dcr' = DeclareAll(dcr)
    /\ pc' = "idle"
    /\ lineage' = "created"
    /\ UnchangedOptions
    /\ UNCHANGED <<stateValue, setStateClock, statusResp, mgrVars, op, cur, arg,
                   nOps, destroyOrder, createCalls, createOk, destroyCalls,
                   destroyOk, destroyErr, resultErr, inferred, clearedStatus,
                   touched, dtr, providerOnce, providerCalls, statusResources,
                   statusCalls, reports, report>>

CreateAllReturn == CreateAllReturns /\ UNCHANGED firstOrder

\* the same return, followed from run to run: the order of the first run
\* of this manager that returned nil is remembered
CreateAllReturnNoted ==
    /\ CreateAllReturns
    /\ firstOrder' = (IF firstOrder = <<>> THEN createState.Order ELSE firstOrder)

\* ------------------------------------------------------------- DestroyAll
\* the names DestroyAll's fallback collects: resources whose State() is not
\* the nil interface
ResourcesWithState == {r \in Resources : ~StateIsNil(r)}

\* sort.Slice by setStateClock: any ordering of the names in which the
\* clocks never decrease (the sort is not stable and the names were
\* collected in map order)
SortedByClock(S) ==
    {s \in Perms(S) : \A i, j \in 1..Len(s) : i < j => setStateClock[s[i]] <= setStateClock[s[j]]}

\* destroy mappers that take the markers of the resources before them
DestroyDepsBefore(order, i) == {order[j] : j \in 1..(i - 1)}

\* the resources whose markers the destroy mapper of order[i] takes as
\* inputs: those after it in the order
DestroyDeps(order, i) == {order[j] : j \in (i + 1)..Len(order)}

\* the names of order for which DestroyAll builds a destroy mapper: all of
\* them, or those before the first name that is not a registered resource
MissingAt(order) == {i \in 1..Len(order) : order[i] \notin Resources}
FirstMissing(order) == CHOOSE i \in MissingAt(order) : \A j \in MissingAt(order) : i <= j
MappersBuilt(order) ==
    IF MissingAt(order) = {} THEN Range(order)
    ELSE {order[j] : j \in 1..(FirstMissing(order) - 1)}
MissingResourceError(order) ==
    [kind |-> "missing resource definition", name |-> order[FirstMissing(order)]]

\* DestroyAll from its entry to finalFunc.Call, called directly or as the
\* rollback of CreateAll: validate, take the recorded order or infer one
\* from the resources that have state, wrap the value providers and build
\* the destroy mapper of each name in the order, which zeroes a state that
\* is the nil interface.  (The order of a rollback is never empty and names
\* registered resources only.)
DestroyAllBegin ==
    /\ \/ StartOp("DestroyAll")
       \/ pc = "createFailed" /\ UNCHANGED <<op, nOps>>
    /\ createCalls' = (IF pc = "idle" THEN <<>> ELSE createCalls)
    /\ createOk' = (IF pc = "idle" THEN <<>> ELSE createOk)
    /\ arg' = (IF pc = "idle" THEN Zero ELSE arg)
    /\ providerCalls' = (IF pc = "idle" THEN 0 ELSE providerCalls)
    /\ destroyCalls' = <<>>
    /\ destroyOk' = {}
    /\ destroyErr' = <<>>
    /\ clearedStatus' = {}
    /\ statusCalls' = {}
    /\ reports' = <<>>
    /\ report' = NoReport
    /\ cur' = "none"
    /\ IF ~Validate
       THEN /\ resultErr' = <<ValidateError>>
            /\ pc' = "idle"
            /\ inferred' = FALSE
            /\ destroyOrder' = <<>>
            /\ UNCHANGED <<createState, stateValue, providerOnce, lineage>>
       ELSE /\ lineage' = (CASE pc = "idle" /\ lineage = "created" -> "destroying"
                             [] pc = "idle" /\ lineage = "loaded" -> "destroyingLoaded"
                             [] OTHER -> "none")
            /\ inferred' = (createState.isNil \/ Len(createState.Order) = 0)
            /\ \E order \in (IF ~createState.isNil /\ Len(createState.Order) > 0
                             THEN {createState.Order}
                             ELSE SortedByClock(ResourcesWithState)) :
                /\ createState' = (IF createState.isNil THEN createState
                                   ELSE NewCreateState(order))
                /\ destroyOrder' = order
                /\ stateValue' = [r \in Resources |->
                      IF r \in MappersBuilt(order) /\ StateIsNil(r)
                      THEN initState(r, TRUE) ELSE stateValue[r]]
                /\ providerOnce' = (IF order = <<>> THEN providerOnce ELSE FALSE)
                /\ IF order = <<>>
                   THEN \* nothing to destroy: return nil
                        /\ pc' = "idle"
                        /\ resultErr' = (IF pc = "idle" THEN <<>> ELSE resultErr)
                   ELSE IF MissingAt(order) # {}
                   THEN \* a recorded name has no resource: return the error
                        /\ pc' = "idle"
                        /\ resultErr' = (IF pc = "idle"
                                         THEN <<MissingResourceError(order)>>
                                         ELSE resultErr \o <<MissingResourceError(order)>>)
                   ELSE /\ pc' = "destroy"
                        /\ resultErr' = (IF pc = "idle" THEN <<>> ELSE resultErr)
    /\ UnchangedDefs
    /\ UNCHANGED <<setStateClock, statusResp, setStateCallOrder, touched,
                   dcr, dtr, statusResources>>

\* a solver that calls the destroy mappers in any order
DestroyReadyAnyOrder(i) == destroyOrder[i] \notin Range(destroyCalls)

\* the solver may call the destroy mapper of destroyOrder[i] once the
\* markers it takes have been produced
DestroyReady(i) ==
    /\ destroyOrder[i] \notin Range(destroyCalls)
    /\ DestroyDeps(destroyOrder, i) \subseteq destroyOk

\* the destroy mapper of destroyOrder[i] starts and calls the destroy
\* callback (a no-op when the resource has none), after the value provider
\* when the callback takes its value and the provider has not run
DestroyInvoke(i) ==
    /\ pc = "destroy"
    /\ DestroyReady(i)
    /\ destroyCalls' = Append(destroyCalls, destroyOrder[i])
    /\ providerOnce' = (providerOnce \/ ProviderRuns(destroyOrder[i], destroyUses))
    /\ providerCalls' = (IF ProviderRuns(destroyOrder[i], destroyUses)
                         THEN providerCalls + 1 ELSE providerCalls)
    /\ cur' = destroyOrder[i]
    /\ pc' = "destroyCall"
    /\ UnchangedDefs
    /\ UNCHANGED <<stateValue, setStateClock, statusResp, mgrVars, op, arg,
                   nOps, destroyOrder, createCalls, createOk, destroyOk, destroyErr,
                   resultErr, inferred, clearedStatus, lineage, touched,
                   dcr, dtr, statusResources, statusCalls, reports, report>>

\* the destroy callback of cur returns: on nil the mapper clears the state
\* and the status of the resource, an error ends finalFunc.Call; the no-op
\* of a resource without destroy callback returns nil
DestroyReturn ==
    /\ pc = "destroyCall"
    /\ \E ok \in (IF destroyFunc[cur] THEN BOOLEAN ELSE {TRUE}) :
        IF ok
        THEN /\ stateValue' = [stateValue EXCEPT ![cur] = initState(cur, FALSE)]
             /\ statusResp' = [statusResp EXCEPT ![cur] = FALSE]
             /\ statusResources' = [statusResources EXCEPT ![cur] = <<>>]
             /\ clearedStatus' = (IF statusResp[cur] THEN clearedStatus \cup {cur}
                                  ELSE clearedStatus)
             /\ destroyOk' = destroyOk \cup {cur}
             /\ destroyErr' = destroyErr
             /\ pc' = "destroy"
        ELSE /\ stateValue' = stateValue
             /\ statusResp' = statusResp
             /\ statusResources' = statusResources
             /\ clearedStatus' = clearedStatus
             /\ destroyOk' = destroyOk
             /\ destroyErr' = <<DestroyError(cur)>>
             /\ pc' = "destroyFailed"
    /\ cur' = "none"
    /\ UnchangedDefs
    /\ UNCHANGED <<setStateClock, mgrVars, op, arg, nOps, destroyOrder, createCalls,
                   createOk, destroyCalls, resultErr, inferred, lineage, touched,
                   dcr, dtr, providerOnce, providerCalls, statusCalls, reports,
                   report>>

\* a CreateAll that drops the error of its rollback
ChainRollbackDropped(createErr, rollbackErr) == createErr

\* the error CreateAll returns after its rollback: the rollback error, if
\* any, appended to the error of the create callback
ChainRollback(createErr, rollbackErr) ==
    IF rollbackErr # <<>>
    THEN createErr \o <<RollbackError(rollbackErr[1])>>
    ELSE createErr

\* the loop of DestroyAll over m.resources needs the destroyed resources
\* response for a resource with a destroy callback and the declared
\* resources response for one without; dereferencing the one that was not
\* given panics
NeedsNil(r) == IF destroyFunc[r] THEN dtr.isNil ELSE dcr.isNil
PanicsAt(order) == {i \in 1..Len(order) : NeedsNil(order[i])}
Reported(order) ==
    IF PanicsAt(order) = {} THEN order
    ELSE SubSeq(order, 1, (CHOOSE i \in PanicsAt(order) : \A j \in PanicsAt(order) : i <= j) - 1)
HasDestroyFunc(order) == {r \in Range(order) : destroyFunc[r]}
HasNoDestroyFunc(order) == {r \in Range(order) : ~destroyFunc[r]}

\* the end of DestroyAll, visiting the resources in the given order: every
\* resource with a destroy callback is appended to the destroyed resources
\* and every other resource to the declared resources, until the loop ends
\* or panics
DestroyAllCollect(order) ==
    [dtr |-> IF dtr.isNil THEN dtr
             ELSE Collector(dtr.list (+) DestroyedEntries(HasDestroyFunc(Reported(order)))),
     dcr |-> IF dcr.isNil THEN dcr
             ELSE Collector(dcr.list (+) DeclaredEntries(HasNoDestroyFunc(Reported(order)))),
     panic |-> PanicsAt(order) # {}]

\* finalFunc.Call of DestroyAll returned: on success the creation state is
\* cleared; the collectors are populated; DestroyAll returns its error, to
\* the caller or to CreateAll, which then populates the declared resources
\* and returns
DestroyAllReturn ==
    /\ \/ pc = "destroyFailed"
       \/ pc = "destroy" /\ Range(destroyOrder) \subseteq Range(destroyCalls)
    /\ createState' = (IF destroyErr = <<>> THEN NoCreateState ELSE createState)
    /\ \E order \in MapOrders(dcr.isNil /\ dtr.isNil) :
        LET c == DestroyAllCollect(order)
        IN /\ dtr' = c.dtr
           /\ IF c.panic
              THEN /\ dcr' = c.dcr
                   /\ resultErr' = <<PanicError>>
                   /\ pc' = "panicked"
              ELSE /\ dcr' = (IF op = "CreateAll" THEN DeclareAll(c.dcr) ELSE c.dcr)
                   /\ resultErr' = (IF op = "CreateAll"
                                    THEN ChainRollback(resultErr, destroyErr)
                                    ELSE destroyErr)
                   /\ pc' = "idle"
    /\ UnchangedDefs
    /\ UNCHANGED <<stateValue, setStateClock, statusResp, setStateCallOrder,
                   op, cur, arg, nOps, destroyOrder, createCalls, createOk,
                   destroyCalls, destroyOk, destroyErr, inferred, clearedStatus,
                   lineage, touched, providerOnce, providerCalls, statusResources,
                   statusCalls, reports, report>>

\* --------------------------------------------------------------- SetState
\* Resource.SetState with a value of the resource's state type
SetState(r, v) ==
    /\ StartOp("SetState")
    /\ stateType[r] # "none"
    /\ setStateCallOrder < MaxClock
    /\ stateValue' = [stateValue EXCEPT ![r] = Ptr(v)]
    /\ setStateCallOrder' = setStateCallOrder + 1
    /\ setStateClock' = [setStateClock EXCEPT ![r] = setStateCallOrder + 1]
    /\ touched' = touched \cup {r}
    /\ lineage' = "none"
    /\ resultErr' = <<>>
    /\ ResetLogs
    /\ ResetStatusLogs
    /\ UnchangedDefs
    /\ UNCHANGED <<statusResp, createState, pc, cur, dcr, dtr, providerOnce,
                   statusResources>>

\* ------------------------------------------------------- State, LoadState
\* Manager.proto: the create order and one entry per resource
ManagerProto ==
    [CreateOrder |-> (IF createState.isNil THEN <<>> ELSE createState.Order),
     Resources |-> [r \in Resources |-> ResourceProto(r)]]

\* a serialized manager state: the create order and a list of resource
\* entries, each a name and a Raw field
StoredEntry(n, raw) == [Name |-> n, Raw |-> raw]
Stored(createOrder, entries) == [CreateOrder |-> createOrder, Resources |-> entries]

\* Resource.name: empty for a resource built without WithName, which the
\* manager keeps under a generated key
Name(r) == IF named[r] THEN r ELSE ""

\* Manager.State() of this manager, its resources visited in the given order
State(order) ==
    Stored(IF createState.isNil THEN <<>> ELSE createState.Order,
           [i \in 1..Len(order) |-> StoredEntry(Name(order[i]), ResourceProto(order[i]))])

\* Resource.loadState on a resource whose state is cur: no Raw field leaves
\* the state alone, otherwise the message is decoded into a fresh struct
loadState(curValue, raw) ==
    IF raw.isNil THEN curValue ELSE Ptr(raw.val)

\* a LoadState that skips the entries of resources it does not know
RECURSIVE LoadFromSkipUnknown(_, _, _)
LoadFromSkipUnknown(sv, entries, i) ==
    IF i > Len(entries) THEN [state |-> sv, err |-> <<>>]
    ELSE LET n == entries[i].Name
             raw == entries[i].Raw
         IN IF n \notin {r \in Resources : named[r]}
            THEN LoadFromSkipUnknown(sv, entries, i + 1)
            ELSE IF raw.isNil
            THEN LoadFromSkipUnknown(sv, entries, i + 1)
            ELSE IF stateType[n] = "none"
            THEN [state |-> sv, err |-> <<LoadError(n)>>]
            ELSE IF stateType[n] = "plain"
            THEN [state |-> [sv EXCEPT ![n] = Ptr(Zero)], err |-> <<LoadError(n)>>]
            ELSE LoadFromSkipUnknown([sv EXCEPT ![n] = loadState(sv[n], raw)], entries, i + 1)

\* a LoadState that restores the resource states it was called with when
\* an entry fails
RECURSIVE LoadFromKeeping(_, _, _, _)
LoadFromKeeping(orig, sv, entries, i) ==
    IF i > Len(entries) THEN [state |-> sv, err |-> <<>>]
    ELSE LET n == entries[i].Name
             raw == entries[i].Raw
         IN IF n \notin {r \in Resources : named[r]}
            THEN [state |-> orig, err |-> <<UnknownResourceError(n)>>]
            ELSE IF raw.isNil
            THEN LoadFromKeeping(orig, sv, entries, i + 1)
            ELSE IF stateType[n] # "proto"
            THEN [state |-> orig, err |-> <<LoadError(n)>>]
            ELSE LoadFromKeeping(orig, [sv EXCEPT ![n] = loadState(sv[n], raw)], entries, i + 1)
LoadFromAtomic(sv, entries, i) == LoadFromKeeping(sv, sv, entries, i)

\* the loop of LoadState over the stored entries from the i-th on, sv being
\* the resource states so far: it stops at the first entry whose name is not
\* a key of m.resources (an unnamed resource is stored under a generated
\* key), and at the first entry with a Raw field whose resource has no state
\* type or a state type that is not a proto.Message (the state was zeroed
\* by then)
RECURSIVE LoadFrom(_, _, _)
LoadFrom(sv, entries, i) ==
    IF i > Len(entries) THEN [state |-> sv, err |-> <<>>]
    ELSE LET n == entries[i].Name
             raw == entries[i].Raw
         IN IF n \notin {r \in Resources : named[r]}
            THEN [state |-> sv, err |-> <<UnknownResourceError(n)>>]
            ELSE IF raw.isNil
            THEN LoadFrom(sv, entries, i + 1)
            ELSE IF stateType[n] = "none"
            THEN [state |-> sv, err |-> <<LoadError(n)>>]
            ELSE IF stateType[n] = "plain"
            THEN [state |-> [sv EXCEPT ![n] = Ptr(Zero)], err |-> <<LoadError(n)>>]
            ELSE LoadFrom([sv EXCEPT ![n] = loadState(sv[n], raw)], entries, i + 1)

\* the resources a stored state names in its order or gives a Raw field
NamedBy(s) ==
    (Range(s.CreateOrder) \cup
     {s.Resources[i].Name : i \in {j \in 1..Len(s.Resources) : ~s.Resources[j].Raw.isNil}})
    \cap Resources

\* s is what State() of this manager returns
IsOwnState(s) ==
    /\ Len(s.Resources) = Cardinality(Resources)
    /\ s.CreateOrder = (IF createState.isNil THEN <<>> ELSE createState.Order)
    /\ {s.Resources[i] : i \in 1..Len(s.Resources)} =
           {StoredEntry(Name(r), ResourceProto(r)) : r \in Resources}

\* Manager.LoadState of the stored state s, into a manager freshly built
\* from the same definitions (fresh) or into this manager itself
LoadState(fresh, s) ==
    /\ StartOp("LoadState")
    /\ LET base == [r \in Resources |-> IF fresh THEN NilV ELSE stateValue[r]]
           l == LoadFrom(base, s.Resources, 1)
       IN /\ createState' = NewCreateState(s.CreateOrder)
          /\ stateValue' = l.state
          /\ resultErr' = l.err
          /\ touched' = (IF fresh THEN {} ELSE touched) \cup NamedBy(s)
    /\ setStateClock' = (IF fresh THEN [r \in Resources |-> 0] ELSE setStateClock)
    /\ statusResp' = (IF fresh THEN [r \in Resources |-> FALSE] ELSE statusResp)
    /\ statusResources' = (IF fresh THEN [r \in Resources |-> <<>>] ELSE statusResources)
    /\ lineage' = (IF lineage \in {"created", "loaded"} /\ IsOwnState(s)
                   THEN (IF fresh THEN "loaded" ELSE lineage)
                   ELSE "none")
    /\ ResetLogs
    /\ ResetStatusLogs
    /\ UnchangedDefs
    /\ UNCHANGED <<setStateCallOrder, pc, cur, dcr, dtr, providerOnce>>

\* ---------------------------------------------------------- healthSummary
\* pb.StatusReport_Health: UNKNOWN 0, ALIVE 1, READY 2, DOWN 3, PARTIAL 4,
\* MISSING 5
Healths == 0..5
PARTIAL == 4
\* the resource types of the reports, in the order of sort.Strings
Types == {"a", "b"}
TypeRank == [t \in Types |-> IF t = "a" THEN 1 ELSE 2]

\* a *pb.StatusReport_Resource: nil, or a report with its type, its health
\* and its reference to a declared resource ("" is none)
NilRep == [isNil |-> TRUE, Type |-> "", Health |-> 0, DeclaredResource |-> ""]
Rep(t, h) == [isNil |-> FALSE, Type |-> t, Health |-> h, DeclaredResource |-> ""]

MessageEntry(c, t, h) == [count |-> c, type |-> t, health |-> h]

\* countByHealthByResourceType[h][t]
CountByHealthByResourceType(resources, h, t) ==
    Cardinality({i \in 1..Len(resources) : resources[i].Health = h /\ resources[i].Type = t})
\* the keys of countByHealthByResourceType
DistinctHealths(resources) == {resources[i].Health : i \in 1..Len(resources)}
\* the (health, type) pairs counted, sorted by health (sort.Ints) and then
\* by type (sort.Strings)
HealthTypePairs(resources) == {<<resources[i].Health, resources[i].Type>> : i \in 1..Len(resources)}
PairBefore(p, q) == p[1] < q[1] \/ (p[1] = q[1] /\ TypeRank[p[2]] < TypeRank[q[2]])
SortedPairs(P) == CHOOSE s \in Perms(P) : \A i, j \in 1..Len(s) : i < j => PairBefore(s[i], s[j])

\* a healthSummary that takes the health of the first report when the
\* healths differ
healthSummaryFirst(resources) ==
    IF Len(resources) = 0
    THEN [health |-> 0, message |-> NoMessage, err |-> <<SummaryError>>]
    ELSE [health |-> resources[1].Health,
          message |-> [kind |-> "all",
                       entries |-> <<MessageEntry(Len(resources), "resources", resources[1].Health)>>],
          err |-> <<>>]

\* a healthSummary that accepts the empty list
healthSummaryOfEmpty(resources) ==
    [health |-> 0, message |-> NoMessage, err |-> <<>>]

\* healthSummary: the overall health, the health message and the error
healthSummary(resources) ==
    IF Len(resources) = 0
    THEN [health |-> 0, message |-> NoMessage, err |-> <<SummaryError>>]
    ELSE IF \E i \in 1..Len(resources) : resources[i].isNil
    THEN [health |-> 0, message |-> NoMessage,
          err |-> <<[kind |-> "nil resource", name |-> "manager"]>>]
    ELSE IF Cardinality(DistinctHealths(resources)) = 1
    THEN [health |-> resources[1].Health,
          message |-> [kind |-> "all",
                       entries |-> <<MessageEntry(Len(resources), "resources", resources[1].Health)>>],
          err |-> <<>>]
    ELSE LET sp == SortedPairs(HealthTypePairs(resources))
         IN [health |-> PARTIAL,
             message |-> [kind |-> "partial",
                          entries |-> [i \in 1..Len(sp) |->
                              MessageEntry(CountByHealthByResourceType(resources, sp[i][1], sp[i][2]),
                                           sp[i][2], sp[i][1])]],
             err |-> <<>>]

\* a call of healthSummary on the list summaryIn
HealthSummary ==
    /\ summaryOut = NoSummary
    /\ summaryOut' = <<healthSummary(summaryIn)>>
    /\ UNCHANGED <<resVars, mgrVars, opVars, logVars, optVars, outVars, summaryIn,
                   extVars, firstOrder>>

\* ------------------------------------------------- StatusAll, StatusReport
\* the reports of list with their reference set to the resource r
Tag(list, r) == [i \in 1..Len(list) |-> [list[i] EXCEPT !.DeclaredResource = r]]

\* the concatenation of the lists f[r] for the names r of order
RECURSIVE Flatten(_, _)
Flatten(order, f) ==
    IF order = <<>> THEN <<>> ELSE f[Head(order)] \o Flatten(Tail(order), f)

\* a status mapper that appends to the status response it finds
StatusRespAppended(old, out) == old \o out

\* the status mapper of a resource with a status callback gives the
\* callback a new, empty status response: what the response holds after
\* the callback appended the reports out
StatusRespAfter(old, out) == out

\* StatusAll after Validate: the solver calls the status mappers of the
\* resources of ran, the callback of failed (if any) returning an error;
\* outs[r] is what the status callback of r appends to its response.  On
\* success the responses that exist are tagged with their resource and
\* concatenated, the resources visited in the given order.
StatusAllResult(outs, failed, ran, order) ==
    LET called == {r \in ran : statusFunc[r]}
        resp == [r \in Resources |-> statusResp[r] \/ r \in called]
        res == [r \in Resources |->
                   IF r \in called THEN StatusRespAfter(statusResources[r], outs[r])
                   ELSE statusResources[r]]
        tagged == [r \in Resources |-> IF resp[r] THEN Tag(res[r], r) ELSE res[r]]
    IN IF failed # "none"
       THEN [calls |-> called, resp |-> resp, res |-> res, reports |-> <<>>,
             err |-> <<StatusError(failed)>>]
       ELSE [calls |-> called, resp |-> resp, res |-> tagged,
             reports |-> Flatten(order, tagged), err |-> <<>>]

\* the runs of the status mappers the solver can make: all of them return
\* nil, or the callback of one resource fails after those of some others
\* (the mapper of a resource without status callback does nothing, such
\* resources are left out of the run)
WithStatusFunc == {r \in Resources : statusFunc[r]}
StatusRuns ==
    {<<"none", WithStatusFunc>>} \cup
    UNION {{<<f, ran \cup {f}>> : ran \in SUBSET (WithStatusFunc \ {f})} : f \in WithStatusFunc}
\* the orders in which the final loop of StatusAll may visit the resources
\* that have a status response
StatusOrders(ran) == Perms({r \in Resources : statusResp[r] \/ (r \in ran /\ statusFunc[r])})

\* Manager.StatusAll, the status callbacks appending outs and the solver
\* calling those of ran, that of failed returning an error
StatusAll(outs, failed, ran) ==
    /\ StartOp("StatusAll")
    /\ IF ~Validate
       THEN /\ resultErr' = <<ValidateError>>
            /\ statusCalls' = {}
            /\ reports' = <<>>
            /\ UNCHANGED <<statusResp, statusResources, providerOnce>>
       ELSE \E s \in {StatusAllResult(outs, failed, ran, order) : order \in StatusOrders(ran)} :
                 /\ statusCalls' = s.calls
                 /\ statusResp' = s.resp
                 /\ statusResources' = s.res
                 /\ reports' = s.reports
                 /\ resultErr' = s.err
                 /\ providerOnce' = FALSE
    /\ report' = NoReport
    /\ lineage' = (IF lineage \in {"created", "loaded"} THEN lineage ELSE "none")
    /\ ResetLogs
    /\ UnchangedDefs
    /\ UNCHANGED <<stateValue, setStateClock, mgrVars, pc, cur, touched, dcr, dtr>>

\* the error StatusReport makes of an error of StatusAll
StatusReportError(e) == [kind |-> "failed generating resource statuses", name |-> e.name]

\* Manager.StatusReport: Validate, StatusAll, then the health summary of
\* the reports
StatusReport(outs, failed, ran) ==
    /\ StartOp("StatusReport")
    /\ IF ~Validate
       THEN /\ resultErr' = <<ValidateError>>
            /\ statusCalls' = {}
            /\ reports' = <<>>
            /\ report' = NoReport
            /\ UNCHANGED <<statusResp, statusResources, providerOnce>>
       ELSE \E s \in {StatusAllResult(outs, failed, ran, order) : order \in StatusOrders(ran)} :
              \E h \in {healthSummary(s.reports)} :
                 /\ statusCalls' = s.calls
                 /\ statusResp' = s.resp
                 /\ statusResources' = s.res
                 /\ reports' = s.reports
                 /\ providerOnce' = FALSE
                 /\ resultErr' = (IF s.err # <<>> THEN <<StatusReportError(s.err[1])>>
                                  ELSE h.err)
                 /\ report' = (IF s.err # <<>> \/ h.err # <<>> THEN NoReport
                               ELSE <<[Health |-> h.health, HealthMessage |-> h.message,
                                       Resources |-> s.reports]>>)
    /\ lineage' = (IF lineage \in {"created", "loaded"} THEN lineage ELSE "none")
    /\ ResetLogs
    /\ UnchangedDefs
    /\ UNCHANGED <<stateValue, setStateClock, mgrVars, pc, cur, touched, dcr, dtr>>

\* ------------------------------------------------------------------- Next
\* every status callback appends one report
DefaultOuts == [r \in Resources |-> <<Rep("a", 2)>>]
\* the resources in the order of their names.  The entries of State() name
\* distinct resources of the manager, so that LoadState gives the same
\* result whatever the order of the entries is.
ResourceList == <<"A", "B", "C">>

\* The operations with create and destroy callbacks that succeed or fail,
\* status callbacks that succeed and a state that comes from State().

Next ==
    \/ CreateAllBegin
    \/ \E r \in Resources : CreateInvoke(r)
    \/ CreateReturn
    \/ CreateAllReturn
    \/ DestroyAllBegin
    \/ \E i \in 1..Len(destroyOrder) : DestroyInvoke(i)
    \/ DestroyReturn
    \/ DestroyAllReturn
    \/ \E r \in Resources, v \in Values : SetState(r, v)
    \/ \E fresh \in BOOLEAN : LoadState(fresh, State(ResourceList))
    \/ StatusAll(DefaultOuts, "none", WithStatusFunc)

Spec == Init /\ [][Next]_vars

\* ------------------------------------------- the options of the manager
\* One wiring (B takes the state of A, C has no state) under each of these
\* options: which resources have a status callback, no name, no create
\* callback, a destroy callback, which callbacks take the value of the value
\* provider, and which collectors the manager was given
BaseOptions ==
    [status |-> {"A"}, unnamed |-> {}, noCreate |-> {}, destroy |-> Resources,
     createUses |-> {}, destroyUses |-> {}, providers |-> 0,
     dcr |-> FALSE, dtr |-> FALSE]
ExtOptions ==
    {[BaseOptions EXCEPT !.unnamed = {"A"}],
     [BaseOptions EXCEPT !.noCreate = {"B"}, !.status = {"A", "B"}],
     [BaseOptions EXCEPT !.dcr = TRUE, !.dtr = TRUE, !.destroy = {"A", "B"}, !.status = {}],
     [BaseOptions EXCEPT !.dcr = TRUE, !.destroy = {"A"}, !.status = {}],
     [BaseOptions EXCEPT !.providers = 1, !.createUses = {"A", "B"},
                         !.destroyUses = {"A", "B"}, !.status = {}]}
StatusOptions ==
    {[BaseOptions EXCEPT !.status = {}],
     [BaseOptions EXCEPT !.status = {"A", "C"}]}

\* the manager built with the options o
Configured(o) ==
    /\ stateType = [r \in Resources |-> IF r = "C" THEN "none" ELSE "proto"]
    /\ createFunc = [r \in Resources |-> IF r = "B" THEN {"A"} ELSE {}]
    /\ statusFunc = [r \in Resources |-> r \in o.status]
    /\ named = [r \in Resources |-> r \notin o.unnamed]
    /\ createNil = [r \in Resources |-> r \in o.noCreate]
    /\ destroyFunc = [r \in Resources |-> r \in o.destroy]
    /\ createUses = o.createUses
    /\ destroyUses = o.destroyUses
    /\ valueProviders = o.providers
    /\ dcr = (IF o.dcr THEN Collector(<<>>) ELSE NoCollector)
    /\ dtr = (IF o.dtr THEN Collector(<<>>) ELSE NoCollector)
    /\ summaryIn = <<>>
    /\ OnlyManager
    /\ Constructed

InitExt == \E o \in ExtOptions : Configured(o)

\* stored states of other managers: X is a resource this manager does not
\* have, and the stored create order names it
StoredEntries == {StoredEntry("A", Raw("v")), StoredEntry("C", Raw("v")), StoredEntry("X", RawNil)}
StoredStates ==
    {Stored(<<"A", "X">>, e) : e \in {<<>>} \cup {<<x>> : x \in StoredEntries}
                                    \cup {<<x, y>> : x, y \in StoredEntries}}

\* The operations on a manager with invalid resources, collectors or a
\* value provider; LoadState also takes the entries of State() in another
\* order and the states of other managers.
NextExt ==
    \/ CreateAllBegin
    \/ \E r \in Resources : CreateInvoke(r)
    \/ CreateReturn
    \/ CreateAllReturn
    \/ DestroyAllBegin
    \/ \E i \in 1..Len(destroyOrder) : DestroyInvoke(i)
    \/ DestroyReturn
    \/ DestroyAllReturn
    \/ \E r \in Resources, v \in Values : SetState(r, v)
    \/ \E fresh \in BOOLEAN, order \in {ResourceList, Reverse(ResourceList)} :
          LoadState(fresh, State(order))
    \/ \E s \in StoredStates : LoadState(FALSE, s)
    \/ StatusAll(DefaultOuts, "none", WithStatusFunc)
    \/ StatusReport(DefaultOuts, "none", WithStatusFunc)

SpecExt == InitExt /\ [][NextExt]_vars

\* ------------------------------------------------- the status callbacks
InitStatus == \E o \in StatusOptions : Configured(o)

\* what the status callbacks append in one StatusAll
ReportLists == {<<>>, <<Rep("a", 3), Rep("b", 2)>>}
StatusOuts ==
    {o \in [Resources -> ReportLists] : \A r \in Resources : ~statusFunc[r] => o[r] = <<>>}

\* The operations on a manager whose status callbacks append any of
\* ReportLists, or fail.
NextStatus ==
    \/ CreateAllBegin
    \/ \E r \in Resources : CreateInvoke(r)
    \/ CreateReturn
    \/ CreateAllReturn
    \/ DestroyAllBegin
    \/ \E i \in 1..Len(destroyOrder) : DestroyInvoke(i)
    \/ DestroyReturn
    \/ DestroyAllReturn
    \/ \E r \in Resources, v \in Values : SetState(r, v)
    \/ \E fresh \in BOOLEAN : LoadState(fresh, State(ResourceList))
    \/ \E outs \in StatusOuts, run \in StatusRuns : StatusAll(outs, run[1], run[2])
    \/ \E outs \in StatusOuts, run \in StatusRuns : StatusReport(outs, run[1], run[2])

SpecStatus == InitStatus /\ [][NextStatus]_vars

\* ------------------------------------------------ healthSummary by itself
\* cap on the length of the list given to healthSummary
MaxReports == 3
ReportValues == {NilRep} \cup {Rep(t, h) : t \in Types, h \in {1, 2, 3, PARTIAL}}
ReportSeqs == UNION {[1..n -> ReportValues] : n \in 0..MaxReports}

InitHealth ==
    /\ stateType = [r \in Resources |-> "proto"]
    /\ createFunc = [r \in Resources |-> {}]
    /\ statusFunc = [r \in Resources |-> TRUE]
    /\ named = [r \in Resources |-> TRUE]
    /\ createNil = [r \in Resources |-> FALSE]
    /\ destroyFunc = [r \in Resources |-> TRUE]
    /\ createUses = {}
    /\ destroyUses = {}
    /\ valueProviders = 0
    /\ dcr = NoCollector
    /\ dtr = NoCollector
    /\ summaryIn \in ReportSeqs
    /\ OnlyManager
    /\ Constructed

NextHealth == HealthSummary

SpecHealth == InitHealth /\ [][NextHealth]_vars

\* ------------------------------------------------- NewManager by itself
\* the manager of the specifications that study something else: three
\* independent named resources with every callback, nothing created
PlainManager ==
    /\ stateType = [r \in Resources |-> "proto"]
    /\ createFunc = [r \in Resources |-> {}]
    /\ statusFunc = [r \in Resources |-> TRUE]
    /\ named = [r \in Resources |-> TRUE]
    /\ createNil = [r \in Resources |-> FALSE]
    /\ destroyFunc = [r \in Resources |-> TRUE]
    /\ createUses = {}
    /\ destroyUses = {}
    /\ valueProviders = 0
    /\ dcr = NoCollector
    /\ dtr = NoCollector
    /\ summaryIn = <<>>
    /\ Constructed

\* cap on the number of WithResource options given to NewManager
MaxOptions == 3
\* the names given to NewResource; "" is a resource without WithName
OptionNames == {"", "A", "B"}
\* a *Resource given to WithResource: its name, whether it has a create
\* callback, and its identity (the pointer), which is its place in the call
OptionSeqs ==
    UNION {{s \in [1..n -> [name : OptionNames, hasCreate : BOOLEAN, ptr : 1..n]] :
               \A i \in 1..n : s[i].ptr = i} : n \in 0..MaxOptions}

\* component.Id(): a fresh ULID, different from every name and from every
\* other ULID; one is drawn for every resource registered without a name
Ulids == <<"01H0", "01H1", "01H2", "01H3", "01H4", "01H5">>
Id(r) == Ulids[r.ptr]

\* the map m with the key k set to v
MapSet(m, k, v) == [x \in DOMAIN m \cup {k} |-> IF x = k THEN v ELSE m[x]]

\* a WithResource that keeps the resource already stored under the name
WithResourceKeepFirst(m, r) ==
    LET name == IF r.name = "" THEN Id(r) ELSE r.name
    IN  IF name \in DOMAIN m THEN m ELSE MapSet(m, name, r)

\* the option WithResource(r) applied to the map m.resources: the key is
\* the name, or a generated ULID when there is no name, and the assignment
\* replaces whatever the key held
WithResource(m, r) ==
    LET name == IF r.name = "" THEN Id(r) ELSE r.name
    IN  MapSet(m, name, r)

\* NewManager(opts...): the options applied in order to an empty map
RECURSIVE ApplyOptions(_, _)
ApplyOptions(m, opts) ==
    IF opts = <<>> THEN m
    ELSE ApplyOptions(WithResource(m, Head(opts)), Tail(opts))

NewManager(opts) == ApplyOptions(<<>>, opts)

\* Resource.Validate of a stored resource returns nil
ValidResource(r) == r.name # "" /\ r.hasCreate

\* Manager.Validate on the map m: the prefixes of the errors it collects,
\* one for every stored resource that does not validate; {} is a nil error
ManagerValidate(m) ==
    {IF m[k].name = "" THEN "unnamed resource" ELSE m[k].name :
        k \in {x \in DOMAIN m : ~ValidResource(m[x])}}

\* the call NewManager(options...)
NewManagerCall ==
    /\ managerResources = <<>>
    /\ managerResources' = <<NewManager(options)>>
    /\ UNCHANGED <<managerVars, cancelledOp, options, fsVars, stubVars, callVars, execVars, shimVars>>

InitNew ==
    /\ PlainManager
    /\ NoCancel /\ NoFuncCall /\ NoPluginClient /\ NoExecSession /\ NoShims /\ NoClientFunc
    /\ options \in OptionSeqs
    /\ managerResources = <<>>

NextNew == NewManagerCall

SpecNew == InitNew /\ [][NextNew]_vars

\* ---------------------------------- CreateAll under a cancelled context
\* CreateAll(args ...interface{}) takes no context of its own: a context
\* is one more value of args, which the manager hands to argmapper as a
\* typed argument and never reads.  The caller cancels the context of the
\* running CreateAll, between two callbacks or while one runs
Cancel ==
    /\ cancelledOp = 0
    /\ op = "CreateAll"
    /\ pc \in {"create", "createCall"}
    /\ cancelledOp' = nOps
    /\ UNCHANGED <<managerVars, regVars, fsVars, stubVars, callVars, execVars, shimVars>>

\* a manager of A and B, independent of each other, and of C, whose create
\* callback takes the state of A
InitRuns ==
    /\ stateType = [r \in Resources |-> "proto"]
    /\ createFunc = [r \in Resources |-> IF r = "C" THEN {"A"} ELSE {}]
    /\ statusFunc = [r \in Resources |-> FALSE]
    /\ named = [r \in Resources |-> TRUE]
    /\ createNil = [r \in Resources |-> FALSE]
    /\ destroyFunc = [r \in Resources |-> TRUE]
    /\ createUses = {}
    /\ destroyUses = {}
    /\ valueProviders = 0
    /\ dcr = NoCollector
    /\ dtr = NoCollector
    /\ summaryIn = <<>>
    /\ OnlyManager
    /\ Constructed

NextRuns ==
    \/ CreateAllBegin
    \/ \E r \in Resources : CreateInvoke(r)
    \/ CreateReturn
    \/ CreateAllReturnNoted
    \/ DestroyAllBegin
    \/ \E i \in 1..Len(destroyOrder) : DestroyInvoke(i)
    \/ DestroyReturn
    \/ DestroyAllReturn
    \/ Cancel

SpecRuns == InitRuns /\ [][NextRuns]_vars

\* --------------------------- primitive arguments across the plugin boundary
\* Go's integer types.  A value is kept as its bit pattern: four limbs of
\* 16 bits, lowest first, the bits above the width of the type being zero
IntKinds == {"int", "int8", "int16", "int32", "int64",
             "uint", "uint8", "uint16", "uint32", "uint64"}
Signed(k) == k \in {"int", "int8", "int16", "int32", "int64"}
\* the sizes of int and uint a build can have
NativeWidths == {32, 64}
Width(k, native) ==
    CASE k \in {"int8", "uint8"} -> 8
      [] k \in {"int16", "uint16"} -> 16
      [] k \in {"int32", "uint32"} -> 32
      [] k \in {"int64", "uint64"} -> 64
      [] OTHER -> native

Limb == 2^16
Byte == 2^8
\* the conversion to an integer type of w bits keeps the low w bits
Truncate(b, w) ==
    CASE w = 8 -> <<b[1] % Byte, 0, 0, 0>>
      [] w = 16 -> <<b[1], 0, 0, 0>>
      [] w = 32 -> <<b[1], b[2], 0, 0>>
      [] OTHER -> b
\* the sign bit of a pattern of w bits
Negative(b, w) ==
    CASE w = 8 -> b[1] >= Byte \div 2
      [] w = 16 -> b[1] >= Limb \div 2
      [] w = 32 -> b[2] >= Limb \div 2
      [] OTHER -> b[4] >= Limb \div 2
\* the conversion of a signed value of w bits to int64 copies the sign bit
\* into the bits above
SignExtend(b, w) ==
    IF ~Negative(b, w) THEN b
    ELSE CASE w = 8 -> <<b[1] + (Limb - Byte), Limb - 1, Limb - 1, Limb - 1>>
           [] w = 16 -> <<b[1], Limb - 1, Limb - 1, Limb - 1>>
           [] w = 32 -> <<b[1], b[2], Limb - 1, Limb - 1>>
           [] OTHER -> b

\* the Go conversion T(v) of the 64-bit pattern b to the integer type k
ConvertTo(k, b, native) == [kind |-> k, bits |-> Truncate(b, Width(k, native))]

\* FuncSpec_Value_PrimitiveType of a Go kind (the enum mirrors reflect.Kind)
PrimitiveType(k) ==
    CASE k = "int" -> "INT" [] k = "int8" -> "INT8" [] k = "int16" -> "INT16"
      [] k = "int32" -> "INT32" [] k = "int64" -> "INT64"
      [] k = "uint" -> "UINT" [] k = "uint8" -> "UINT8" [] k = "uint16" -> "UINT16"
      [] k = "uint32" -> "UINT32" [] k = "uint64" -> "UINT64"

\* appendValue on an integer: the tag of the type, and the value widened
\* to int64 (field Int) or to uint64 (field Uint)
appendValue(v, native) ==
    IF Signed(v.kind)
    THEN [PrimitiveType |-> PrimitiveType(v.kind), field |-> "Int",
          num |-> SignExtend(v.bits, Width(v.kind, native))]
    ELSE [PrimitiveType |-> PrimitiveType(v.kind), field |-> "Uint",
          num |-> v.bits]

\* callDynamicFunc2 on the Uint field: the switch tests the tags INT8,
\* INT16, INT32 and INT64, which appendValue never puts on a Uint field
decodeUint(a, native) ==
    CASE a.PrimitiveType = "INT8" -> ConvertTo("uint8", a.num, native)
      [] a.PrimitiveType = "INT16" -> ConvertTo("uint16", a.num, native)
      [] a.PrimitiveType = "INT32" -> ConvertTo("uint32", a.num, native)
      [] a.PrimitiveType = "INT64" -> ConvertTo("uint64", a.num, native)
      [] OTHER -> ConvertTo("uint", a.num, native)

\* callDynamicFunc2 on the Int field
decodeInt(a, native) ==
    CASE a.PrimitiveType = "INT8" -> ConvertTo("int8", a.num, native)
      [] a.PrimitiveType = "INT16" -> ConvertTo("int16", a.num, native)
      [] a.PrimitiveType = "INT32" -> ConvertTo("int32", a.num, native)
      [] a.PrimitiveType = "INT64" -> ConvertTo("int64", a.num, native)
      [] OTHER -> ConvertTo("int", a.num, native)

\* the value callDynamicFunc2 hands to the plugin's function for the
\* argument a
callDynamicFunc2(a, native) ==
    IF a.field = "Int" THEN decodeInt(a, native) ELSE decodeUint(a, native)

\* the limbs and the low bytes the arguments are drawn from: zero, one, the
\* largest positive value, the sign bit alone and all ones
LimbValues == {0, 1, Limb \div 2 - 1, Limb \div 2, Limb - 1}
ByteValues == {0, 1, Byte \div 2 - 1, Byte \div 2, Byte - 1}
\* the values of the integer type k
IntValues(k, native) ==
    {[kind |-> k, bits |-> b] :
        b \in {x \in [1..4 -> LimbValues \cup ByteValues] :
                  /\ x = Truncate(x, Width(k, native))
                  /\ Width(k, native) = 8 => x[1] \in ByteValues
                  /\ Width(k, native) > 8 => \A i \in 1..4 : x[i] \in LimbValues \cup {0}}}

\* a host calls a function of the plugin with one integer argument: the
\* value is encoded by appendValue, sent, and decoded by callDynamicFunc2
ArgCalls ==
    UNION {{[value |-> v, native |-> n] : v \in UNION {IntValues(k, n) : k \in IntKinds}} :
              n \in NativeWidths}

CallWithArg ==
    /\ fsOut = <<>>
    /\ fsOut' = <<callDynamicFunc2(appendValue(fsIn.value, fsIn.native), fsIn.native)>>
    /\ UNCHANGED <<managerVars, cancelledOp, regVars, fsIn, stubVars, callVars, execVars, shimVars>>

InitArgs ==
    /\ PlainManager
    /\ NoCancel /\ NoRegistration /\ NoPluginClient /\ NoExecSession /\ NoShims /\ NoClientFunc
    /\ fsIn \in ArgCalls
    /\ fsOut = <<>>

NextArgs == CallWithArg

SpecArgs == InitArgs /\ [][NextArgs]_vars

\* ------------------------------------------ the platform client stub
\* the optional capabilities of a platform plugin, in the order in which
\* PlatformPlugin.GRPCClient probes them
Capabilities == <<"LogPlatform", "Destroyer", "WorkspaceDestroyer", "Authenticator",
                  "Execer", "Generation", "Status">>
\* what the plugin answers to the probe IsYyy: an ImplementsResp, or an
\* RPC error with its status code
Answers == {"true", "false", "Unimplemented", "Unavailable", "Internal"}

\* Implements of destroyerClient, logClient, generationClient and
\* statusClient: any RPC error is returned to the caller
Implements(answer) ==
    IF answer \in {"true", "false"}
    THEN [impl |-> answer = "true", err |-> "nil"]
    ELSE [impl |-> FALSE, err |-> answer]

\* execerClient.Implements: the code Unavailable is taken for "not
\* implemented"; any other RPC error is returned
ImplementsExecer(answer) ==
    IF answer = "Unavailable" THEN [impl |-> FALSE, err |-> "nil"]
    ELSE Implements(answer)

\* Implements of authenticatorClient and workspaceDestroyerClient, as
\* documented: the code Unimplemented is a false answer, not an error
ImplementsDocumented(answer) ==
    IF answer = "Unimplemented" THEN [impl |-> FALSE, err |-> "nil"]
    ELSE Implements(answer)

\* the probe of the capability c on a client that is not nil
Probe(c, answer) ==
    CASE c = "Execer" -> ImplementsExecer(answer)
      [] c \in {"Authenticator", "WorkspaceDestroyer"} -> ImplementsDocumented(answer)
      [] OTHER -> Implements(answer)

\* the capability interfaces each mix type embeds (platform_mix.go)
MixInterfaces(mix) ==
    CASE mix = "mix_Platform_Destroy" ->
             {"Authenticator", "Execer", "LogPlatform", "Destroyer",
              "WorkspaceDestroyer", "Generation", "Status"}
      [] mix = "mix_Platform_Exec" ->
             {"Authenticator", "LogPlatform", "Execer", "Generation", "Status"}
      [] mix = "mix_Platform_Authenticator" ->
             {"Authenticator", "WorkspaceDestroyer", "LogPlatform", "Generation", "Status"}
      [] OTHER -> {}

\* the switch that picks the type of the result
MixFor(clients) ==
    IF "Destroyer" \in clients THEN "mix_Platform_Destroy"
    ELSE IF "Execer" \in clients THEN "mix_Platform_Exec"
    ELSE "mix_Platform_Authenticator"

\* PlatformPlugin.GRPCClient against a plugin that answers p: every
\* capability is probed in turn; the first probe that returns an error ends
\* the construction with that error; a capability whose probe says false has
\* its client set to nil.  The result holds the clients that are not nil
GRPCClient(p) ==
    LET failed == {i \in 1..Len(Capabilities) :
                      Probe(Capabilities[i], p[Capabilities[i]]).err # "nil"}
        clients == {c \in Range(Capabilities) : Probe(c, p[c]).impl}
    IN  IF failed # {}
        THEN [err |-> p[Capabilities[CHOOSE i \in failed : \A j \in failed : i <= j]],
              mix |-> "none", clients |-> {}]
        ELSE [err |-> "nil", mix |-> MixFor(clients), clients |-> clients]

\* the function accessors of the stub: YyyFunc of each capability, and
\* DeployFunc of the platform client itself
Accessors == Range(Capabilities) \cup {"Deploy"}

\* a spec RPC that asks the plugin only when the descriptor is not yet held
SpecRPCOnce(n) == IF n = 0 THEN 1 ELSE n

\* the spec RPC of an accessor (DeploySpec, DestroySpec, ...): every call
\* of the accessor asks the plugin again
SpecRPC(n) == n + 1

\* What a function accessor returns: "func" (a callable function built
\* from the spec it fetched), "funcErr" (a function that returns the probe's
\* error), "nil", or "panic".
\* platformClient.DeployFunc fetches the spec and builds the function
DeployFunc == "func"

\* logClient.LogsFunc does the same on its receiver without looking at it:
\* on the nil client of an unadvertised capability it dereferences nil
LogsFunc(s) == IF "LogPlatform" \in s.clients THEN "func" ELSE "panic"

\* DestroyFunc, ExecFunc, GenerationFunc and StatusFunc first call
\* Implements, which answers false on a nil client without any RPC, and
\* return nil when the capability is not implemented
DestroyFunc(s, a, p) ==
    IF a \notin s.clients THEN "nil"
    ELSE IF Probe(a, p[a]).err # "nil" THEN "funcErr"
    ELSE IF ~Probe(a, p[a]).impl THEN "nil"
    ELSE "func"

\* AuthFunc of authenticatorClient and DestroyWorkspaceFunc of
\* workspaceDestroyerClient, as documented: nil on the nil client of an
\* unadvertised capability
AuthFunc(s, a) == IF a \in s.clients THEN "func" ELSE "nil"

\* the accessor of a on the stub s, against a plugin that answers p
Accessor(s, a, p) ==
    CASE a = "Deploy" -> DeployFunc
      [] a = "LogPlatform" -> LogsFunc(s)
      [] a \in {"Authenticator", "WorkspaceDestroyer"} -> AuthFunc(s, a)
      [] OTHER -> DestroyFunc(s, a, p)

\* the host dispenses the platform plugin: go-plugin calls GRPCClient
Dispense ==
    /\ stub = <<>>
    /\ stub' = <<GRPCClient(probes)>>
    /\ UNCHANGED <<managerVars, cancelledOp, regVars, fsVars, callVars, probes, specRPCs,
                   accessed, execVars, shimVars>>

\* cap on the accessor calls made on one stub
MaxAccess == 2

\* the host asserts the stub to the interface of a and calls its accessor;
\* an accessor that returns a function has fetched the spec from the plugin
Access(a) ==
    /\ stub # <<>>
    /\ stub[1].err = "nil"
    /\ Len(accessed) < MaxAccess
    /\ a = "Deploy" \/ a \in MixInterfaces(stub[1].mix)
    /\ \E res \in {Accessor(stub[1], a, probes)} :
        /\ accessed' = Append(accessed, [accessor |-> a, result |-> res])
        /\ specRPCs' = (IF res = "func" THEN [specRPCs EXCEPT ![a] = SpecRPC(@)]
                        ELSE specRPCs)
    /\ UNCHANGED <<managerVars, cancelledOp, regVars, fsVars, callVars, probes, stub, execVars, shimVars>>

\* the plugins: every combination of advertised capabilities, and at most
\* one probe that fails
PluginAnswers ==
    {p \in [Range(Capabilities) -> Answers] :
        Cardinality({c \in Range(Capabilities) : p[c] \notin {"true", "false"}}) <= 1}

InitStub ==
    /\ PlainManager
    /\ NoCancel /\ NoRegistration /\ NoFuncCall /\ NoExecSession /\ NoShims /\ NoClientFunc
    /\ probes \in PluginAnswers
    /\ stub = <<>>
    /\ specRPCs = [a \in Accessors |-> 0]
    /\ accessed = <<>>

NextStub ==
    \/ Dispense
    \/ \E a \in Accessors : Access(a)

SpecStub == InitStub /\ [][NextStub]_vars

\* ------------------------------------------------------- funcspec.Func
\* the proto message names the results and the *opaqueany.Any values carry
MessageNames == {"google.protobuf.Empty", "FuncSpec", "Deployment"}
\* cap on the number of results a FuncSpec declares
MaxResults == 2
\* FuncSpec.Result: the declared result types, each named once
ResultLists ==
    {s \in UNION {[1..n -> MessageNames] : n \in 0..MaxResults} :
        \A i, j \in 1..Len(s) : i # j => s[i] # s[j]}
\* what the callback returns besides its error: a primitive, or an
\* *opaqueany.Any holding a message
NilAny == [type |-> "*opaqueany.Any", isNil |-> TRUE, msg |-> ""]
AnyOf(m) == [type |-> "*opaqueany.Any", isNil |-> FALSE, msg |-> m]
Primitive(t, v) == [type |-> t, isNil |-> FALSE, msg |-> v]
CallbackValues ==
    {Primitive("int", "42"), Primitive("string", "HELLO")} \cup {AnyOf(m) : m \in MessageNames}

\* a function that projects the callback's output into result slots
\* whether or not the spec declares results
FuncAlwaysMapper(results, ret, failed) ==
    IF failed THEN [err |-> TRUE, mapper |-> FALSE, out |-> <<>>]
    ELSE [err |-> FALSE, mapper |-> TRUE,
          out |-> [m \in Range(results) |->
                      IF ret.type = "*opaqueany.Any" /\ ret.msg = m THEN ret ELSE NilAny]]

\* the function funcspec.Func builds from a spec with the results given,
\* called once: cb returns ret, or fails.
\*   - the error of the callback is the error of the call;
\*   - with no declared result the output set is the callback's own, which
\*     the callback has just populated: the call returns ret as it is;
\*   - with declared results the output set has one *opaqueany.Any slot per
\*     result, keyed by its message name; an Any the callback returned is put
\*     into the slot of its message name when there is one, and every other
\*     slot, like every other value, is left as it was
Func(results, ret, failed) ==
    IF failed THEN [err |-> TRUE, mapper |-> FALSE, out |-> <<>>]
    ELSE IF Len(results) = 0
    THEN [err |-> FALSE, mapper |-> FALSE, out |-> <<ret>>]
    ELSE [err |-> FALSE, mapper |-> TRUE,
          out |-> [m \in Range(results) |->
                      IF ret.type = "*opaqueany.Any" /\ ret.msg = m THEN ret ELSE NilAny]]

\* f := Func(spec, cb); f.Call(...)
FuncCall ==
    /\ fsOut = <<>>
    /\ fsOut' = <<Func(fsIn.Result, fsIn.ret, fsIn.failed)>>
    /\ UNCHANGED <<managerVars, cancelledOp, regVars, fsIn, stubVars, callVars, execVars, shimVars>>

InitFunc ==
    /\ PlainManager
    /\ NoCancel /\ NoRegistration /\ NoPluginClient /\ NoExecSession /\ NoShims /\ NoClientFunc
    /\ fsIn \in [Result : ResultLists, ret : CallbackValues, failed : BOOLEAN]
    /\ fsOut = <<>>

NextFunc == FuncCall

SpecFunc == InitFunc /\ [][NextFunc]_vars

\* ------------------------------------------ the client of an exec session
\* make(chan component.WindowSize, 2)
WindowSizeBuffer == 2
\* cap on the messages of the input stream
MaxInput == 3
\* the messages of the input stream: data for stdin, a window size, or the
\* close of the input; the n-th message carries the payload n
InputKinds == {"Data", "WindowSize", "InputClosed"}
InputStreams == UNION {[1..n -> InputKinds] : n \in 0..MaxInput}
\* the mark the close of the pipe leaves in what the session reads
EOF == 0

\* a channel send that makes room by dropping the oldest value
SendDroppingOldest(ch, v) ==
    [ok |-> TRUE,
     ch |-> IF Len(ch) = WindowSizeBuffer THEN Append(Tail(ch), v) ELSE Append(ch, v)]

\* the send wsUpdates <- update of the select: it proceeds only while the
\* buffer has room, and then appends; there is no default case
Send(ch, v) ==
    [ok |-> Len(ch) < WindowSizeBuffer,
     ch |-> IF Len(ch) < WindowSizeBuffer THEN Append(ch, v) ELSE ch]

\* input.Recv() returns the next message and the switch dispatches on it;
\* InputClosed closes the pipe at once
Recv ==
    /\ execPc = "recv"
    /\ execPos < Len(execIn)
    /\ LET m == execIn[execPos + 1]
       IN  CASE m = "Data" ->
                    /\ execPc' = "write"
                    /\ UNCHANGED <<execPos, stdinW>>
             [] m = "WindowSize" ->
                    /\ execPc' = "select"
                    /\ UNCHANGED <<execPos, stdinW>>
             [] OTHER ->
                    /\ execPc' = "recv"
                    /\ execPos' = execPos + 1
                    /\ stdinW' = (IF EOF \in Range(stdinW) THEN stdinW
                                  ELSE Append(stdinW, EOF))
    /\ UNCHANGED <<managerVars, cancelledOp, regVars, fsVars, stubVars, callVars, shimVars, execIn,
                   wsUpdates, wsTaken>>

\* input.Recv() returns an error (the stream ended or the context was
\* cancelled): the goroutine returns
RecvError ==
    /\ execPc = "recv"
    /\ execPc' = "done"
    /\ UNCHANGED <<managerVars, cancelledOp, regVars, fsVars, stubVars, callVars, shimVars, execIn,
                   execPos, wsUpdates, wsTaken, stdinW>>

\* stdinW.Write(v.Data) returns: the session has read the data from the
\* pipe, or the pipe is closed and the write fails at once.  A pipe write
\* takes no context: while the session does not read, it does not return
Write ==
    /\ execPc = "write"
    /\ sessionReads \/ EOF \in Range(stdinW)
    /\ stdinW' = (IF EOF \in Range(stdinW) THEN stdinW
                  ELSE Append(stdinW, execPos + 1))
    /\ execPos' = execPos + 1
    /\ execPc' = "recv"
    /\ UNCHANGED <<managerVars, cancelledOp, regVars, fsVars, stubVars, callVars, shimVars, execIn,
                   wsUpdates, wsTaken>>

\* the select takes the case wsUpdates <- update
SelectSend ==
    /\ execPc = "select"
    /\ \E s \in {Send(wsUpdates, execPos + 1)} :
        /\ s.ok
        /\ wsUpdates' = s.ch
    /\ execPos' = execPos + 1
    /\ execPc' = "recv"
    /\ UNCHANGED <<managerVars, cancelledOp, regVars, fsVars, stubVars, callVars, shimVars, execIn,
                   wsTaken, stdinW>>

\* the select takes the case <-ctx.Done(): the goroutine returns
SelectDone ==
    /\ execPc = "select"
    /\ ctxDone
    /\ execPc' = "done"
    /\ UNCHANGED <<managerVars, cancelledOp, regVars, fsVars, stubVars, callVars, shimVars, execIn,
                   execPos, wsUpdates, wsTaken, stdinW>>

\* the session receives from ExecSessionInfo.WindowSizeUpdates
TakeUpdate ==
    /\ wsUpdates # <<>>
    /\ wsTaken' = Append(wsTaken, Head(wsUpdates))
    /\ wsUpdates' = Tail(wsUpdates)
    /\ UNCHANGED <<managerVars, cancelledOp, regVars, fsVars, stubVars, callVars, shimVars, execIn,
                   execPos, execPc, stdinW>>

\* the outer call is closed: its context is cancelled
CtxCancel ==
    /\ ~ctxDone
    /\ ctxDone' = TRUE
    /\ UNCHANGED <<managerVars, cancelledOp, regVars, fsVars, stubVars, callVars, execVars,
                   sessionReads, srv, logs>>

\* the exec session stops reading its stdin (the io.Reader it was given has
\* no Close)
SessionStops ==
    /\ sessionReads
    /\ sessionReads' = FALSE
    /\ UNCHANGED <<managerVars, cancelledOp, regVars, fsVars, stubVars, callVars, execVars,
                   ctxDone, srv, logs>>

\* ExecPlugin.GRPCClient has returned: the pipe and the channel are empty
\* and the goroutine is about to call Recv
ExecClientStarts ==
    /\ execPos = 0
    /\ execPc = "recv"
    /\ wsUpdates = <<>>
    /\ wsTaken = <<>>
    /\ stdinW = <<>>
    /\ ctxDone = FALSE
    /\ sessionReads = TRUE

InitExec ==
    /\ PlainManager
    /\ NoCancel /\ NoRegistration /\ NoFuncCall /\ NoPluginClient /\ NoClientFunc
    /\ NoExecServer /\ NoLogViewer
    /\ execIn \in InputStreams
    /\ ExecClientStarts

NextExec ==
    \/ Recv
    \/ RecvError
    \/ Write
    \/ SelectSend
    \/ SelectDone
    \/ TakeUpdate
    \/ CtxCancel
    \/ SessionStops

SpecExec == InitExec /\ [][NextExec]_vars

\* ------------------------------------------ the server of an exec session
\* caps on what the host's side of the session provides: reads of its stdin
\* that return data, and window sizes
MaxChunks == 2
MaxResizes == 1

\* stream.Send(frame) of execServer.Input returns nil: the frame joins the
\* input stream of the client
StreamSent(frame, s) ==
    /\ execIn' = Append(execIn, frame)
    /\ srv' = s

\* the stream's context being done, stream.Send returns an error and Input
\* returns it: the frame is lost
StreamSendFails(s) ==
    /\ ctxDone
    /\ srv' = [s EXCEPT !.loop = "done"]
    /\ UNCHANGED execIn

\* the reader goroutine: s.Impl.Input.Read(buf) returns.  With data it goes
\* on to the select; at the end of the input (err != nil && n == 0) it
\* sends on closedCh, whose buffer of one always has room, and returns.
\* Read takes no context: while the input is silent it does not return
InputRead ==
    /\ srv.reader = "read"
    /\ IF srv.read < srv.chunks
       THEN srv' = [srv EXCEPT !.read = @ + 1, !.reader = "select"]
       ELSE /\ srv.eof
            /\ srv' = [srv EXCEPT !.closedCh = 1, !.reader = "done"]
    /\ UNCHANGED <<managerVars, cancelledOp, regVars, fsVars, stubVars, callVars, execVars,
                   ctxDone, sessionReads, logs>>

\* the reader goroutine's select takes the case <-stream.Context().Done()
InputReaderDone ==
    /\ srv.reader = "select"
    /\ ctxDone
    /\ srv' = [srv EXCEPT !.reader = "done"]
    /\ UNCHANGED <<managerVars, cancelledOp, regVars, fsVars, stubVars, callVars, execVars,
                   ctxDone, sessionReads, logs>>

\* readCh is unbuffered: the reader's send and the loop's receive happen
\* together; the loop then sends the data frame
InputData ==
    /\ srv.reader = "select"
    /\ srv.loop = "select"
    /\ \E s \in {[srv EXCEPT !.reader = "read"]} :
        \/ StreamSent("Data", s)
        \/ StreamSendFails(s)
    /\ UNCHANGED <<managerVars, cancelledOp, regVars, fsVars, stubVars, callVars, execPos,
                   execPc, wsUpdates, wsTaken, stdinW, ctxDone, sessionReads, logs>>

\* a loop whose closedCh was closed rather than sent on: the case <-closedCh
\* stays ready
InputClosedByClose ==
    /\ srv.loop = "select"
    /\ srv.closedCh = 1
    /\ \/ StreamSent("InputClosed", srv)
       \/ StreamSendFails(srv)
    /\ UNCHANGED <<managerVars, cancelledOp, regVars, fsVars, stubVars, callVars, execPos,
                   execPc, wsUpdates, wsTaken, stdinW, ctxDone, sessionReads, logs>>

\* the loop's select takes the case <-closedCh and sends the sentinel
InputClosed ==
    /\ srv.loop = "select"
    /\ srv.closedCh = 1
    /\ \E s \in {[srv EXCEPT !.closedCh = 0]} :
        \/ StreamSent("InputClosed", s)
        \/ StreamSendFails(s)
    /\ UNCHANGED <<managerVars, cancelledOp, regVars, fsVars, stubVars, callVars, execPos,
                   execPc, wsUpdates, wsTaken, stdinW, ctxDone, sessionReads, logs>>

\* the loop's select takes the case ws := <-s.Impl.WindowSizeUpdates
InputWindowSize ==
    /\ srv.loop = "select"
    /\ srv.ws > 0
    /\ \E s \in {[srv EXCEPT !.ws = @ - 1]} :
        \/ StreamSent("WindowSize", s)
        \/ StreamSendFails(s)
    /\ UNCHANGED <<managerVars, cancelledOp, regVars, fsVars, stubVars, callVars, execPos,
                   execPc, wsUpdates, wsTaken, stdinW, ctxDone, sessionReads, logs>>

\* the loop's select takes the case <-stream.Context().Done(): return nil
InputDone ==
    /\ srv.loop = "select"
    /\ ctxDone
    /\ srv' = [srv EXCEPT !.loop = "done"]
    /\ UNCHANGED <<managerVars, cancelledOp, regVars, fsVars, stubVars, callVars, execVars,
                   ctxDone, sessionReads, logs>>

\* ioWriter.Write: the session writes output and the Output RPC is sent
IoWrite ==
    /\ srv.output = "idle"
    /\ ~ctxDone
    /\ srv' = [srv EXCEPT !.output = "rpc"]
    /\ UNCHANGED <<managerVars, cancelledOp, regVars, fsVars, stubVars, callVars, execVars,
                   ctxDone, sessionReads, logs>>

\* execServer.Output has written the data to the host's output and the RPC
\* returns: Write returns len(p)
IoWriteReturns ==
    /\ srv.output = "rpc"
    /\ srv' = [srv EXCEPT !.output = "idle"]
    /\ UNCHANGED <<managerVars, cancelledOp, regVars, fsVars, stubVars, callVars, execVars,
                   ctxDone, sessionReads, logs>>

\* the context being done, i.client.Output(i.ctx, ...) returns an error and
\* Write returns 0 and the error: the data is dropped
IoWriteFails ==
    /\ srv.output = "rpc"
    /\ ctxDone
    /\ srv' = [srv EXCEPT !.output = "failed"]
    /\ UNCHANGED <<managerVars, cancelledOp, regVars, fsVars, stubVars, callVars, execVars,
                   ctxDone, sessionReads, logs>>

\* execServer.Input has started its reader and entered its loop; the host's
\* stdin will return some chunks and then end, or stay silent
ExecServerStarts ==
    \E c \in 0..MaxChunks, e \in BOOLEAN, w \in 0..MaxResizes :
        srv = [chunks |-> c, eof |-> e, read |-> 0, reader |-> "read",
               closedCh |-> 0, loop |-> "select", ws |-> w, output |-> "idle"]

\* ------------------------------------------------- the log viewer shims
\* make(chan component.LogEvent, 10)
OutputBacklog == 10
\* cap on the log events the plugin produces
MaxEvents == 2

UnchangedByLogs ==
    UNCHANGED <<managerVars, cancelledOp, regVars, fsVars, stubVars, callVars, execVars,
                ctxDone, sessionReads, srv>>

\* the plugin sends a log event on LogViewer.Output
LogsProduce ==
    /\ logs.fwd # "none"
    /\ ~logs.closed
    /\ logs.events > 0
    /\ logs.output < OutputBacklog
    /\ logs' = [logs EXCEPT !.events = @ - 1, !.output = @ + 1]
    /\ UnchangedByLogs

\* the plugin closes LogViewer.Output
LogsClose ==
    /\ logs.fwd # "none"
    /\ ~logs.closed
    /\ logs' = [logs EXCEPT !.closed = TRUE]
    /\ UnchangedByLogs

\* the forwarder's select takes the case cle, ok := <-output with ok: it
\* sends the event on the stream and ignores what nlb.Send returns; once
\* the context is done the send may fail and the event is lost
ForwardEvent ==
    /\ logs.fwd = "select"
    /\ logs.output > 0
    /\ \/ logs' = [logs EXCEPT !.output = @ - 1, !.stream = @ + 1]
       \/ /\ ctxDone
          /\ logs' = [logs EXCEPT !.output = @ - 1]
    /\ UnchangedByLogs

\* the forwarder's select takes the case cle, ok := <-output with !ok: the
\* channel is closed and drained
ForwardClosed ==
    /\ logs.fwd = "select"
    /\ logs.output = 0
    /\ logs.closed
    /\ logs' = [logs EXCEPT !.fwd = "done"]
    /\ UnchangedByLogs

\* the forwarder's select takes the case <-ctx.Done()
ForwardDone ==
    /\ logs.fwd = "select"
    /\ ctxDone
    /\ logs' = [logs EXCEPT !.fwd = "done"]
    /\ UnchangedByLogs

\* logsServer.NextLogBatch: lv.Recv() returns a chunk of one event
NextLogBatchRecv ==
    /\ logs.server = "recv"
    /\ logs.stream > 0
    /\ logs' = [logs EXCEPT !.stream = @ - 1, !.server = "select"]
    /\ UnchangedByLogs

\* lv.Recv() returns an error, the stream's context being done
NextLogBatchRecvError ==
    /\ logs.server = "recv"
    /\ ctxDone
    /\ logs' = [logs EXCEPT !.server = "done"]
    /\ UnchangedByLogs

\* the select takes the case s.Impl.Output <- out: the host's viewer
\* receives the event
NextLogBatchDeliver ==
    /\ logs.server = "select"
    /\ logs.viewing
    /\ logs' = [logs EXCEPT !.viewed = @ + 1, !.server = "recv"]
    /\ UnchangedByLogs

\* the select takes the case <-lv.Context().Done(): return nil, the event
\* in hand is dropped
NextLogBatchDone ==
    /\ logs.server = "select"
    /\ ctxDone
    /\ logs' = [logs EXCEPT !.dropped = @ + 1, !.server = "done"]
    /\ UnchangedByLogs

\* the host's viewer stops receiving from its LogViewer.Output
ViewerStops ==
    /\ logs.viewing
    /\ logs' = [logs EXCEPT !.viewing = FALSE]
    /\ UnchangedByLogs

\* LogsPlugin.GRPCClient has returned and NextLogBatch has started
LogViewerStarts ==
    \E n \in 0..MaxEvents :
        logs = [events |-> n, output |-> 0, closed |-> FALSE, fwd |-> "select",
                stream |-> 0, server |-> "recv", viewing |-> TRUE, viewed |-> 0,
                dropped |-> 0]

\* ------------------------------------- one outer call and its sub-streams
\* the outer call is an exec call, with the two sides of an exec session,
\* or a logs call, with the two sides of a log viewer
InitShims ==
    /\ PlainManager
    /\ NoCancel /\ NoRegistration /\ NoFuncCall /\ NoPluginClient /\ NoClientFunc
    /\ ctxDone = FALSE
    /\ \/ /\ execIn = <<>>
          /\ ExecClientStarts
          /\ ExecServerStarts
          /\ NoLogViewer
       \/ /\ NoExecSession
          /\ sessionReads = FALSE
          /\ NoExecServer
          /\ LogViewerStarts

ExecClientNext ==
    \/ Recv
    \/ RecvError
    \/ Write
    \/ SelectSend
    \/ SelectDone
    \/ IoWriteReturns
    \/ IoWriteFails

ExecServerNext ==
    \/ InputRead
    \/ InputReaderDone
    \/ InputData
    \/ InputClosed
    \/ InputWindowSize
    \/ InputDone

LogViewerNext ==
    \/ ForwardEvent
    \/ ForwardClosed
    \/ ForwardDone
    \/ NextLogBatchRecv
    \/ NextLogBatchRecvError
    \/ NextLogBatchDeliver
    \/ NextLogBatchDone

\* what the two ends of the sub-streams do on their own
EnvironmentNext ==
    \/ TakeUpdate
    \/ SessionStops
    \/ IoWrite
    \/ LogsProduce
    \/ LogsClose
    \/ ViewerStops
    \/ CtxCancel

NextShims ==
    \/ ExecClientNext
    \/ ExecServerNext
    \/ LogViewerNext
    \/ EnvironmentNext

SpecShims == InitShims /\ [][NextShims]_vars

\* the scheduler runs every goroutine that can take a step, and a call
\* that observes the context returns once the context is done; nothing is
\* assumed of the two ends (the session, the viewer, the host's stdin) nor
\* of the caller cancelling
ShimsFairness ==
    /\ WF_vars(Recv)
    /\ WF_vars(RecvError /\ ctxDone)
    /\ WF_vars(Write)
    /\ WF_vars(SelectSend)
    /\ WF_vars(SelectDone)
    /\ WF_vars(IoWriteFails)
    /\ WF_vars(InputRead)
    /\ WF_vars(InputReaderDone)
    /\ WF_vars(InputData)
    /\ WF_vars(InputClosed)
    /\ WF_vars(InputWindowSize)
    /\ WF_vars(InputDone)
    /\ WF_vars(ForwardEvent)
    /\ WF_vars(ForwardClosed)
    /\ WF_vars(ForwardDone)
    /\ WF_vars(NextLogBatchRecv)
    /\ WF_vars(NextLogBatchRecvError)
    /\ WF_vars(NextLogBatchDeliver)
    /\ WF_vars(NextLogBatchDone)

SpecShimsFair == SpecShims /\ ShimsFairness

\* ------------------------- the function of a client stub and its Cleanup
\* caps on the calls of one function, on the cleanup functions the
\* converters of one call register, and on the calls of Close per RPC
MaxRPCs == 2
MaxCleanups == 2
MaxCloses == 2

\* Cleanup.Do(f): c.f becomes a function that calls f and then, deferred,
\* the old c.f; the chain is kept as the list of the registered functions
Do(chain, f) == Append(chain, f)

\* Cleanup.Close(): calls c.f if there is one, which runs the registered
\* functions from the last to the first; c.f is left as it is
Close(chain) == [ran |-> Reverse(chain), chain |-> chain]

\* c.Client.Destroy of the generated gRPC client: a response and no error,
\* or no response and the error
DestroyRPC(fails) ==
    IF fails THEN [resp |-> "nil", err |-> "rpc error"]
    ELSE [resp |-> "Destroy_Resp", err |-> "nil"]

\* destroyerClient.destroy after the RPC: it reads resp.DeclaredResources
\* and resp.DestroyedResources whatever err is, and then returns err
destroy(rpc) == IF rpc.resp = "nil" THEN "panic" ELSE rpc.err

\* the functions that Close has run, tagged with the RPC that was closing
Ran(chain, rpc) == [i \in 1..Len(chain) |-> [id |-> chain[i].id, at |-> rpc]]

\* the host calls the function that DestroyFunc returned: the converters
\* run with the Internal, and so the Cleanup, the function was built with
CallBegin ==
    /\ client.pc = "idle"
    /\ client.rpcs < MaxRPCs
    /\ client' = [client EXCEPT !.pc = "rpc", !.rpcs = @ + 1, !.closes = 0]
    /\ UNCHANGED <<managerVars, cancelledOp, regVars, fsVars, stubVars, execVars, shimVars>>

\* a converter (TerminalUI, ...) registers a cleanup function
CleanupDo ==
    /\ client.pc = "rpc"
    /\ Cardinality({i \in 1..Len(client.f) : client.f[i].rpc = client.rpcs}) < MaxCleanups
    /\ client' = [client EXCEPT
                     !.f = Do(@, [id |-> Len(client.f) + 1, rpc |-> client.rpcs])]
    /\ UNCHANGED <<managerVars, cancelledOp, regVars, fsVars, stubVars, execVars, shimVars>>

\* destroyerClient.destroy: the RPC returns, the responses are copied, and
\* the deferred internal.Cleanup.Close() runs (also when destroy panics)
CallReturn(fails) ==
    /\ client.pc = "rpc"
    /\ client' = [client EXCEPT
                     !.pc = "idle",
                     !.closes = 1,
                     !.runs = @ \o Ran(Close(client.f).ran, client.rpcs),
                     !.f = Close(client.f).chain,
                     !.rpc = Append(@, DestroyRPC(fails)),
                     !.result = Append(@, destroy(DestroyRPC(fails)))]
    /\ UNCHANGED <<managerVars, cancelledOp, regVars, fsVars, stubVars, execVars, shimVars>>

\* Close is called once more after the RPC
CloseAgain ==
    /\ client.pc = "idle"
    /\ client.closes \in 1..(MaxCloses - 1)
    /\ client' = [client EXCEPT
                     !.closes = @ + 1,
                     !.runs = @ \o Ran(Close(client.f).ran, client.rpcs),
                     !.f = Close(client.f).chain]
    /\ UNCHANGED <<managerVars, cancelledOp, regVars, fsVars, stubVars, execVars, shimVars>>

\* DestroyFunc has returned the function: funcspec.Func(spec, c.destroy, ...,
\* argmapper.Typed(&pluginargs.Internal{..., Cleanup: &pluginargs.Cleanup{}}))
InitClient ==
    /\ PlainManager
    /\ NoCancel /\ NoRegistration /\ NoFuncCall /\ NoPluginClient /\ NoExecSession /\ NoShims
    /\ client = [f |-> <<>>, runs |-> <<>>, rpcs |-> 0, pc |-> "idle", closes |-> 0,
                 rpc |-> <<>>, result |-> <<>>]

NextClient ==
    \/ CallBegin
    \/ CleanupDo
    \/ \E fails \in BOOLEAN : CallReturn(fails)
    \/ CloseAgain

SpecClient == InitClient /\ [][NextClient]_vars

\* ================================================================ claims
Order == IF createState.isNil THEN <<>> ELSE createState.Order
Idle(name) == pc = "idle" /\ op = name
\* s names every registered resource exactly once
OnceEach(s) == Len(s) = Cardinality(Resources) /\ Range(s) = Resources
\* every name of s comes after all the names its create callback depends on
IsTopological(s) ==
    \A i \in 1..Len(s) : \A d \in createFunc[s[i]] : \E j \in 1..(i - 1) : s[j] = d
\* the resource whose create callback failed in the current CreateAll
FailedCreate == createCalls[Len(createCalls)]
CreateAllFailed == op = "CreateAll" /\ Len(createCalls) > Len(createOk) /\ pc # "createCall"
\* CreateAll has returned after a rollback
RolledBack == Idle("CreateAll") /\ CreateAllFailed

\* C1: a CreateAll that returns no error has invoked the create callback of
\* every resource exactly once, and the recorded create order names every
\* resource once, each after all the resources its create callback depends on.
C1_CreateOrderTopological ==
    (Idle("CreateAll") /\ resultErr = <<>>) =>
        /\ OnceEach(createCalls)
        /\ createOk = createCalls
        /\ OnceEach(Order)
        /\ IsTopological(Order)

\* a successful CreateAll of the chain A <- B <- C
C1_Witness ==
    /\ Idle("CreateAll") /\ resultErr = <<>>
    /\ createFunc["B"] = {"A"} /\ createFunc["C"] = {"B"}
    /\ Order = <<"A", "B", "C">>

\* C2: a DestroyAll that starts from the state of a successful CreateAll
\* (also one moved to a fresh manager by LoadState) works on the recorded
\* create order; at every point the destroy callbacks invoked so far are the
\* first names of the reverse of that order, each once, so no resource is
\* destroyed before all the resources created after it; and when DestroyAll
\* returns no error every created resource was destroyed exactly once.
C2_DestroyReversesCreateOrder ==
    lineage \in {"destroying", "destroyingLoaded"} =>
        /\ OnceEach(destroyOrder)
        /\ IsTopological(destroyOrder)
        /\ (pc # "idle" => Order = destroyOrder)
        /\ IsPrefix(destroyCalls, Reverse(destroyOrder))
        /\ (pc = "idle" /\ resultErr = <<>> => destroyCalls = Reverse(destroyOrder))

\* a DestroyAll, in a fresh manager that loaded the state of a created
\* chain, that destroyed C, then B, then A
C2_Witness ==
    /\ lineage = "destroyingLoaded" /\ Idle("DestroyAll") /\ resultErr = <<>>
    /\ createFunc["B"] = {"A"} /\ createFunc["C"] = {"B"}
    /\ destroyCalls = <<"C", "B", "A">>

\* C3 as stated: the rollback destroys exactly the resources whose create
\* callback succeeded.
C3_RollbackDestroysOnlySucceeded ==
    (RolledBack /\ destroyErr = <<>>) => Range(destroyCalls) = Range(createOk)

\* C3 amended: the rollback invokes destroy first on the resource whose
\* create callback failed and then on the k resources created before it, in
\* reverse creation order, and on no other resource; a destroy callback that
\* returns an error ends the rollback at that resource.
C3_RollbackDestroysFailedThenSucceeded ==
    RolledBack =>
        /\ IsPrefix(destroyCalls, <<FailedCreate>> \o Reverse(createOk))
        /\ (destroyErr = <<>> => destroyCalls = <<FailedCreate>> \o Reverse(createOk))

\* a rollback after two successful creations
C3_Witness ==
    /\ RolledBack /\ destroyErr = <<>>
    /\ Len(createOk) = 2
    /\ Len(destroyCalls) = 3

\* C4: the rollback of a failed CreateAll invokes destroy for the resources
\* whose create callback was called, the failing one included, in reverse
\* order of the calls (all of them when no destroy callback fails), and for
\* no resource whose create callback was not called.
C4_RollbackDestroysAttempted ==
    RolledBack =>
        /\ IsPrefix(destroyCalls, Reverse(createCalls))
        /\ (destroyErr = <<>> => destroyCalls = Reverse(createCalls))
        /\ \A r \in Resources : r \notin Range(createCalls) => r \notin Range(destroyCalls)

\* A created, B failed, C (which depends on B) never called: destroy order B, A
C4_Witness ==
    /\ RolledBack
    /\ createFunc["C"] = {"B"}
    /\ createOk = <<"A">>
    /\ createCalls = <<"A", "B">>
    /\ destroyCalls = <<"B", "A">>

\* C5: a CreateAll whose create callback failed returns that callback's
\* error, alone when the rollback succeeded and followed by the rollback's
\* error when the rollback failed.
C5_RollbackErrorChained ==
    RolledBack =>
        /\ resultErr # <<>>
        /\ resultErr[1] = CreateError(FailedCreate)
        /\ (destroyErr = <<>> => resultErr = <<CreateError(FailedCreate)>>)
        /\ (destroyErr # <<>> =>
               resultErr = <<CreateError(FailedCreate), RollbackError(destroyErr[1])>>)

\* a CreateAll whose rollback failed too
C5_Witness ==
    /\ RolledBack
    /\ destroyErr # <<>>
    /\ Len(resultErr) = 2

\* C6 as stated: at every point of a CreateAll the recorded create order is
\* the list of the resources whose create callback has returned nil, in the
\* order of their return.
C6_OrderListsReturnedCreates ==
    op = "CreateAll" => Order = createOk

\* C6 amended: during a CreateAll and after its return the recorded create
\* order is the list of the resources whose create callback has been
\* invoked, in the order of invocation, a callback that is still running or
\* that failed included; only a rollback that succeeds empties the list.
C6_OrderListsInvokedCreates ==
    op = "CreateAll" =>
        IF RolledBack /\ destroyErr = <<>>
        THEN Order = <<>>
        ELSE ~createState.isNil /\ Order = createCalls

\* the create callback of the second resource is running and its name is
\* already in the list
C6_Witness ==
    /\ op = "CreateAll" /\ pc = "createCall"
    /\ Len(createOk) = 1
    /\ Order = Append(createOk, cur)

\* the fresh manager that LoadState makes of State() of this manager
RoundTripState == [r \in Resources |-> loadState(NilV, ResourceProto(r))]

\* C7: for a manager whose state types are proto messages, as WithState
\* requires, loading State() into a fresh manager of the same definitions
\* gives the same create order and the same state of every resource.
C7_LoadStateRestoresManager ==
    (pc = "idle" /\ \A r \in Resources : stateType[r] # "plain") =>
        /\ ManagerProto.CreateOrder = Order
        /\ \A r \in Resources : RoundTripState[r] = stateValue[r]

\* C8: a destroy callback is invoked only for a resource of this manager
\* whose create callback was called, whose state was set with SetState, or
\* that a loaded state named.
C8_DestroyOnlyCreated ==
    \A r \in Range(destroyCalls) : r \in touched

\* the empty representation of the state of r
EmptyState(r) == IF stateType[r] = "none" THEN NilV ELSE TypedNilV
\* a DestroyAll, called directly or as rollback, has returned no error
DestroyAllSucceeded ==
    /\ pc = "idle"
    /\ \/ op = "DestroyAll" /\ resultErr = <<>>
       \/ RolledBack /\ destroyErr = <<>>

\* C9: after a DestroyAll that returned no error the create order is empty,
\* and the state of every destroyed resource is its empty representation
\* and its status response is cleared.
C9_DestroyClearsOrderStateStatus ==
    DestroyAllSucceeded =>
        /\ Order = <<>>
        /\ \A r \in Range(destroyCalls) :
              stateValue[r] = EmptyState(r) /\ ~statusResp[r]

\* a DestroyAll that destroyed a resource with state and a resource with a
\* stored status response
C9_Witness ==
    /\ DestroyAllSucceeded
    /\ clearedStatus # {}
    /\ \E r \in Range(destroyCalls) : stateType[r] # "none"
    /\ \E r \in Range(destroyCalls) : stateType[r] = "none"

\* the resource holds a state struct
HasState(r) == stateValue[r].kind = "ptr"

\* C10: a DestroyAll that finds no recorded create order plans to destroy
\* exactly the resources that hold state, those whose state was set by an
\* earlier SetState call after those set by a later one, and no resource
\* without state (the plan is executed from its last name to its first).
C10_InferredOrderIsResourcesWithState ==
    (inferred /\ pc = "destroy" /\ destroyCalls = <<>>) =>
        /\ Range(destroyOrder) = {r \in Resources : HasState(r)}
        /\ \A i, j \in 1..Len(destroyOrder) :
              (/\ setStateClock[destroyOrder[i]] > 0
               /\ setStateClock[destroyOrder[i]] < setStateClock[destroyOrder[j]]) => i < j

\* ---------------------------------------------------------------- C11
\* the names LoadState finds in m.resources
Registered == {r \in Resources : named[r]}
\* the positions of the stored resource entries whose name is not registered
UnknownEntries(s) == {i \in 1..Len(s.Resources) : s.Resources[i].Name \notin Registered}
\* the i-th stored entry is one that Resource.loadState rejects
LoadFails(s, i) ==
    /\ s.Resources[i].Name \in Registered
    /\ ~s.Resources[i].Raw.isNil
    /\ stateType[s.Resources[i].Name] # "proto"
FirstOf(S) == CHOOSE i \in S : \A j \in S : i <= j
ReturnsUnknownResource == resultErr # <<>> /\ resultErr[1].kind = "unknown resource"

InvalidResource == \E r \in Resources : ~named[r] \/ createNil[r]
ValidatingOps == {"CreateAll", "DestroyAll", "StatusAll", "StatusReport"}
NoCallbackRan == createCalls = <<>> /\ destroyCalls = <<>> /\ statusCalls = {}

\* C12: when some registered resource has an empty name or no create
\* callback, a call of CreateAll, DestroyAll, StatusAll or StatusReport
\* returns at once with the validation error: no create, destroy or status
\* callback is invoked and the resources, the creation state and the
\* collectors are as they were
C12_InvalidManagerRunsNothing ==
    [][(InvalidResource /\ nOps' = nOps + 1 /\ op' \in ValidatingOps) =>
          /\ pc' = "idle"
          /\ resultErr' = <<ValidateError>>
          /\ NoCallbackRan'
          /\ providerCalls' = 0
          /\ UNCHANGED <<stateValue, createState, statusResp, statusResources, dcr, dtr>>]_vars

\* DestroyAll has returned the validation error on a manager whose resource
\* B has no create callback, after SetState gave A a state to destroy
C12_Witness ==
    /\ Idle("DestroyAll")
    /\ createNil["B"]
    /\ stateValue["A"] = Ptr("v")
    /\ resultErr = <<ValidateError>>
    /\ NoCallbackRan

\* ---------------------------------------------------------------- C13
\* C13: the function given to WithValueProvider is called at most once
\* during one CreateAll or DestroyAll invocation, however many callbacks
\* take its value; a CreateAll that fails and rolls back is one invocation
C13_ProviderCalledAtMostOnce ==
    op \in {"CreateAll", "DestroyAll"} => providerCalls <= 1

\* ---------------------------------------------------------------- C14
\* the number of entries a collector holds for the resource named r
EntriesOf(c, r) ==
    LET named_r == {e \in BagToSet(c.list) : e.Name = r}
    IN IF named_r = {} THEN 0
       ELSE BagCardinality([e \in named_r |-> CopiesIn(e, c.list)])
\* e is the entry of r as CreateAll leaves it: name, type, platform,
\* category and the state r has now
DescribesNow(e, r) ==
    /\ e.Name = r
    /\ e.Type = resourceType(r)
    /\ e.Platform = platform(r)
    /\ e.CategoryDisplayHint = categoryDisplayHint(r)
    /\ e.State = ResourceProto(r)
    /\ e.StateJson = StateJson(r)
CreateAllSucceeded == Idle("CreateAll") /\ resultErr = <<>>

DestroyedAdded(r) == EntriesOf(dtr', r) - EntriesOf(dtr, r)
DeclaredAdded(r) == EntriesOf(dcr', r) - EntriesOf(dcr, r)
\* a DestroyAll called on a manager with both collectors returns after it
\* ran the destroy mappers
DestroyAllReturns ==
    /\ op = "DestroyAll"
    /\ pc \in {"destroy", "destroyFailed"}
    /\ pc' = "idle"
    /\ ~dcr.isNil /\ ~dtr.isNil

\* C15: DestroyAll on a manager with both collectors reports in the
\* destroyed resources collector one entry for each resource with a destroy
\* callback that this call destroyed and none for a resource it did not
\* destroy; a resource without destroy callback is never reported there,
\* and is reported once in the declared resources collector when the call
\* went over it
C15_DestroyedCollectorListsDestroyed ==
    [][DestroyAllReturns =>
          \A r \in Resources :
              IF destroyFunc[r]
              THEN DestroyedAdded(r) = (IF r \in destroyOk THEN 1 ELSE 0)
              ELSE /\ DestroyedAdded(r) = 0
                   /\ r \in destroyOk => DeclaredAdded(r) = 1]_vars

\* ---------------------------------------------------------------- C16
\* the reports of list with type t and health h
CountOf(list, t, h) ==
    Cardinality({i \in 1..Len(list) : list[i].Type = t /\ list[i].Health = h})
\* healthSummary was called on a non-empty list without nil reports
SummaryOfReports ==
    /\ summaryOut # NoSummary
    /\ Len(summaryIn) > 0
    /\ \A i \in 1..Len(summaryIn) : ~summaryIn[i].isNil

\* C16: for a non-empty list of reports, the overall health is H when every
\* report's health is H, and PARTIAL otherwise; the message of a PARTIAL
\* summary then has exactly one count-type-health entry for every (type,
\* health) pair present in the list, with the number of reports of that
\* pair as its count
C16_OverallHealthAndMessage ==
    SummaryOfReports =>
        LET out == summaryOut[1]
            entries == out.message.entries
        IN /\ out.err = <<>>
           /\ IF \A i, j \in 1..Len(summaryIn) : summaryIn[i].Health = summaryIn[j].Health
              THEN out.health = summaryIn[1].Health
              ELSE /\ out.health = PARTIAL
                   /\ \A t \in Types, h \in Healths :
                        CountOf(summaryIn, t, h) > 0 =>
                          /\ \E k \in 1..Len(entries) :
                                entries[k] = MessageEntry(CountOf(summaryIn, t, h), t, h)
                          /\ Cardinality({k \in 1..Len(entries) :
                                entries[k].type = t /\ entries[k].health = h}) = 1

\* healthSummary has summed up reports of different healths, two of them
\* of the same type and health
C16_Witness ==
    /\ SummaryOfReports
    /\ summaryOut[1].health = PARTIAL
    /\ \E i, j \in 1..Len(summaryIn) : summaryIn[i].Health # summaryIn[j].Health
    /\ \E k \in 1..Len(summaryOut[1].message.entries) :
          summaryOut[1].message.entries[k].count = 2

\* ---------------------------------------------------------------- C17
\* C17: a StatusReport whose status calls gave no report at all returns an
\* error and no report: the error of a status callback that failed, or else
\* that of the health summary of no resources
C17_NoReportsIsError ==
    (Idle("StatusReport") /\ Validate /\ reports = <<>>) =>
        /\ report = NoReport
        /\ resultErr # <<>>
        /\ resultErr[1].kind # "failed generating resource statuses"
              => resultErr = <<SummaryError>>

\* StatusReport has returned the error of the empty health summary on a
\* manager none of whose resources has a status callback
C17_Witness ==
    /\ Idle("StatusReport")
    /\ WithStatusFunc = {}
    /\ statusCalls = {}
    /\ reports = <<>>
    /\ report = NoReport
    /\ resultErr = <<SummaryError>>

\* ---------------------------------------------------------------- C18
\* the reports of list that refer to the resource r, in their order
ReportsOf(list, r) ==
    LET RefersTo(x) == x.DeclaredResource = r
    IN SelectSeq(list, RefersTo)
\* the reports of list as the status callback appended them
Untagged(list) == [i \in 1..Len(list) |-> [list[i] EXCEPT !.DeclaredResource = ""]]

\* C18: a StatusAll whose status callbacks all return nil returns the
\* concatenation of what the status callback of each resource appended
\* during this call, each report referring to the resource whose callback
\* appended it: nothing comes from a resource without status callback and
\* nothing from an earlier call
C18_StatusAllConcatenatesThisCall ==
    [][(Validate /\ op' = "StatusAll" /\ nOps' = nOps + 1) =>
        \A outs \in StatusOuts :
          StatusAll(outs, "none", WithStatusFunc) =>
            /\ resultErr' = <<>>
            /\ \A i \in 1..Len(reports') : reports'[i].DeclaredResource \in WithStatusFunc
            /\ \A r \in Resources :
                  Untagged(ReportsOf(reports', r)) = (IF statusFunc[r] THEN outs[r] ELSE <<>>)
            /\ \A i, j, k \in 1..Len(reports') :
                  (i < j /\ j < k /\ reports'[i].DeclaredResource = reports'[k].DeclaredResource)
                    => reports'[j].DeclaredResource = reports'[i].DeclaredResource]_vars

\* StatusAll has returned the two reports of A and the two reports of C
C18_Witness ==
    /\ Idle("StatusAll")
    /\ resultErr = <<>>
    /\ Len(reports) = 4
    /\ {reports[i].DeclaredResource : i \in 1..Len(reports)} = {"A", "C"}

\* ---------------------------------------------------------------- C19
\* State() of r is nil: the nil interface or, as the tests take it
\* (require.Nil), a nil pointer of the state type
StateNil(r) == ~HasState(r)

\* C19: between operations, State() is nil for a resource that was not
\* created, set or loaded yet and for a resource that the last DestroyAll
\* destroyed without error, and it is always nil for a resource without
\* state type
C19_StateNilUnlessCreated ==
    pc = "idle" =>
        \A r \in Resources :
            /\ stateType[r] = "none" => StateNil(r)
            /\ r \notin touched => StateNil(r)
            /\ (DestroyAllSucceeded /\ r \in Range(destroyCalls)) => StateNil(r)

\* ---------------------------------------------------------------- C20
\* the manager holds the result of a successful CreateAll, or what a fresh
\* manager loaded of it
HoldsCreatedOrLoadedState ==
    /\ lineage \in {"created", "loaded"}
    /\ \E r \in Resources : HasState(r)

\* C20: CreateAll called on a manager that holds loaded or previously
\* created state returns an error at once: no create callback is invoked
\* and the creation state and the resources' states are kept
C20_CreateAllRefusesExistingState ==
    [][(pc = "idle" /\ HoldsCreatedOrLoadedState /\ op' = "CreateAll" /\ nOps' = nOps + 1) =>
          /\ pc' = "idle"
          /\ resultErr' # <<>>
          /\ createCalls' = <<>>
          /\ UNCHANGED <<createState, stateValue>>]_vars


\* ---- C21
\* the places of options that carry the name n
OptionsNamed(n) == {i \in 1..Len(options) : options[i].name = n}
\* two options carry the same name
NameCollision ==
    \E i, j \in 1..Len(options) :
        i # j /\ options[i].name # "" /\ options[i].name = options[j].name
\* the last option of every name is the one the map holds under that name,
\* every unnamed option is held under a key of its own, and the map holds
\* nothing else
LastOfEachNameKept(m) ==
    /\ \A n \in OptionNames \ {""} :
           IF OptionsNamed(n) = {} THEN n \notin DOMAIN m
           ELSE n \in DOMAIN m /\ m[n] = options[Max(OptionsNamed(n))]
    /\ \A i \in OptionsNamed("") : \E k \in DOMAIN m : m[k] = options[i] /\ k \notin OptionNames
    /\ Cardinality(DOMAIN m) =
           Cardinality({options[i].name : i \in 1..Len(options)} \ {""})
           + Cardinality(OptionsNamed(""))

\* C21 as stated: when two resources are registered with the same name the
\* later one replaces the earlier one, the names of the manager stay
\* unique, and Validate returns an error for the collision.
C21_CollisionSurfacesInValidation ==
    managerResources # <<>> =>
        /\ LastOfEachNameKept(managerResources[1])
        /\ NameCollision => ManagerValidate(managerResources[1]) # {}

\* C21 amended: when two resources are registered with the same name the
\* later one replaces the earlier one, so the manager holds one resource per
\* name (and every unnamed resource under a generated key); Validate checks
\* only the resources the manager holds, so it reports exactly the held
\* resources that are invalid and says nothing about a collision.
C21_LaterRegistrationOverwrites ==
    managerResources # <<>> =>
        /\ LastOfEachNameKept(managerResources[1])
        /\ ManagerValidate(managerResources[1]) =
               {n \in OptionNames \ {""} :
                   OptionsNamed(n) # {} /\ ~options[Max(OptionsNamed(n))].hasCreate}
               \cup (IF OptionsNamed("") # {} THEN {"unnamed resource"} ELSE {})

\* two valid resources named A were registered, the manager holds the second
\* and Validate returns nil
C21_Witness ==
    /\ managerResources # <<>>
    /\ \E i, j \in 1..Len(options) :
           /\ i < j
           /\ options[i].name = "A" /\ options[j].name = "A"
           /\ options[i].hasCreate /\ options[j].hasCreate
           /\ managerResources[1]["A"] = options[j]
    /\ ManagerValidate(managerResources[1]) = {}

\* ---- C22
\* the context of the CreateAll that is running, or that returned last, was
\* cancelled while it ran
CancelledThisRun == op = "CreateAll" /\ cancelledOp = nOps /\ cancelledOp > 0

\* C22 as stated: a CreateAll whose context is cancelled while it runs
\* behaves as if a create callback had failed: it returns an error and does
\* not leave the manager holding a finished creation.
C22_CancelledCreateAllFails ==
    (CancelledThisRun /\ pc = "idle") =>
        /\ resultErr # <<>>
        /\ lineage # "created"
        /\ Range(createOk) # Resources

\* C22 amended: the manager never looks at a context, so cancellation by
\* itself changes nothing.  After the cancellation the solver goes on
\* invoking create callbacks while resources remain, and the CreateAll
\* returns nil exactly when every create callback returned nil; it returns
\* an error (after the automatic rollback) only when a create callback
\* returned one, and that error is the callback's.
C22_CancellationAloneChangesNothing ==
    /\ (CancelledThisRun /\ pc = "create" /\ Range(createCalls) # Resources) =>
           \E r \in Resources : CreateReady(r)
    /\ (CancelledThisRun /\ pc = "idle") =>
           /\ resultErr = <<>> <=> Range(createOk) = Resources
           /\ resultErr # <<>> =>
                  \E r \in Range(createCalls) \ Range(createOk) :
                      resultErr[1] = CreateError(r)

\* a CreateAll was cancelled after its first callback was invoked, created
\* every resource all the same and returned nil
C22_Witness ==
    /\ CancelledThisRun
    /\ pc = "idle"
    /\ resultErr = <<>>
    /\ lineage = "created"
    /\ Range(createOk) = Resources

\* ---- C23
\* a CreateAll has just returned nil, having invoked the create callbacks
\* in the order o and recorded o as its create order
Recorded(o) ==
    /\ op = "CreateAll" /\ pc = "idle" /\ resultErr = <<>>
    /\ createCalls = o
    /\ createState.Order = o

\* C23 as stated: the resources and the argument of a manager being fixed,
\* every CreateAll run that succeeds invokes the create callbacks in the
\* same order and records the same create order as the first such run.
C23_RepeatedRunsSameOrder ==
    (op = "CreateAll" /\ pc = "idle" /\ resultErr = <<>>) => Recorded(firstOrder)

\* C23 amended: every CreateAll run that succeeds invokes each create
\* callback once, in an order that puts every resource after the resources
\* whose state its create callback takes, and records exactly that order;
\* the order of resources that do not depend on each other is left to the
\* solver and the map iteration and may differ between runs.
C23_EachRunRecordsADependencyOrder ==
    (op = "CreateAll" /\ pc = "idle" /\ resultErr = <<>>) =>
        /\ createState.Order = createCalls
        /\ createCalls \in Perms(Resources)
        /\ firstOrder \in Perms(Resources)
        /\ \A i, j \in 1..Len(createCalls) :
               createCalls[i] \in createFunc[createCalls[j]] => i < j

\* a later run of the manager recorded B, A, C where its first run had
\* recorded A, B, C
C23_Witness ==
    /\ nOps >= 2
    /\ firstOrder = <<"A", "B", "C">>
    /\ Recorded(<<"B", "A", "C">>)

\* ---- C24
\* C24: an integer argument of any signedness and width reaches the
\* function of the plugin with the integer type and the value it was sent
\* with.
C24_IntegerArgsKeepTypeAndValue ==
    fsOut # <<>> => fsOut[1] = fsIn.value

\* ---- C25
\* the stub was built against a plugin whose only failing probe, that of
\* the capability c, failed with the code Unimplemented
UnimplementedProbe(c) == stub # <<>> /\ probes[c] = "Unimplemented"

\* C25: a capability probe that fails with the RPC code Unimplemented is
\* taken as the answer false: the construction of the stub succeeds and the
\* stub holds no client for that capability.
C25_UnimplementedProbeMeansAbsent ==
    \A c \in Range(Capabilities) :
        UnimplementedProbe(c) => stub[1].err = "nil" /\ c \notin stub[1].clients

\* ---- C26
\* the host can use the capability c through the stub: the stub asserts to
\* the interface of c and holds a client for it
Usable(c) == c \in MixInterfaces(stub[1].mix) /\ c \in stub[1].clients

\* C26: the stub exposes exactly the capabilities the plugin advertised:
\* whatever the combination, a capability is usable through the stub if and
\* only if its probe answered true.
C26_StubExposesExactlyAdvertised ==
    (stub # <<>> /\ stub[1].err = "nil") =>
        \A c \in Range(Capabilities) : Usable(c) <=> probes[c] = "true"

\* ---- C27
\* C27: the function accessor of a capability the plugin does not implement
\* returns nil, never a function and never a crash.
C27_AbsentAccessorReturnsNil ==
    \A i \in 1..Len(accessed) :
        (accessed[i].accessor # "Deploy" /\ probes[accessed[i].accessor] # "true") =>
            accessed[i].result = "nil"

\* ---- C28
\* the calls of the accessor a that returned a function
FunctionsFrom(a) ==
    {i \in 1..Len(accessed) : accessed[i].accessor = a /\ accessed[i].result = "func"}

C29_DirectCallReturnsCallbackValue ==
    (fsOut # <<>> /\ ~fsIn.failed) =>
        /\ ~fsOut[1].err
        /\ Len(fsIn.Result) = 0 =>
               /\ ~fsOut[1].mapper
               /\ fsOut[1].out = <<fsIn.ret>>
        /\ Len(fsIn.Result) > 0 =>
               /\ fsOut[1].mapper
               /\ DOMAIN fsOut[1].out = Range(fsIn.Result)
               /\ \A m \in Range(fsIn.Result) :
                      fsOut[1].out[m] = (IF fsIn.ret = AnyOf(m) THEN fsIn.ret ELSE NilAny)

\* a Func without results was called with a callback that returns the int
\* 42, and the call returned 42
C29_Witness ==
    /\ fsOut # <<>>
    /\ Len(fsIn.Result) = 0
    /\ fsIn.ret = Primitive("int", "42")
    /\ ~fsOut[1].err
    /\ fsOut[1].out = <<Primitive("int", "42")>>

\* ---- C30
\* the payloads of the messages of kind k among the first n of the stream
RECURSIVE Handled(_, _)
Handled(k, n) ==
    IF n = 0 THEN <<>>
    ELSE IF execIn[n] = k THEN Append(Handled(k, n - 1), n)
    ELSE Handled(k, n - 1)

\* C30 as stated: window sizes go through a channel of capacity 2 and a
\* full channel never holds the forwarding loop up: a window size waiting to
\* be delivered can always be put on the channel at once (an older value
\* making room for it).
C30_ResizeNeverBlocks ==
    /\ Len(wsUpdates) <= WindowSizeBuffer
    /\ execPc = "select" => Send(wsUpdates, execPos + 1).ok

\* C30 amended: window sizes go through a channel of capacity 2 and none is
\* ever dropped: what the session has taken followed by what the channel
\* holds is, in order, every window size the loop has handled.  When the
\* channel is full the loop waits in the select, handling no further input,
\* until the session takes a value or the context is done.
C30_ResizeBufferedNeverDropped ==
    /\ Len(wsUpdates) <= WindowSizeBuffer
    /\ wsTaken \o wsUpdates = Handled("WindowSize", execPos)
    /\ (execPc = "select" /\ Len(wsUpdates) = WindowSizeBuffer) =>
           ~Send(wsUpdates, execPos + 1).ok

\* the channel holds two window sizes, a third one is waiting in the select
\* and the loop is held up
C30_Witness ==
    /\ execPc = "select"
    /\ Len(wsUpdates) = WindowSizeBuffer
    /\ execIn = <<"WindowSize", "WindowSize", "WindowSize">>
    /\ execPos = 2

\* ---- C31
Exited(p) == p \in {"none", "done"}

\* C31: once the context of the outer call is cancelled, the exec client's
\* input forwarder, the exec server's stdin reader and the log viewer's
\* forwarder all terminate eventually.
C31_GoroutinesExitOnCancel ==
    ctxDone ~> (Exited(execPc) /\ Exited(srv.reader) /\ Exited(logs.fwd))

\* ---- C32
\* a write is in flight on the stdin pipe of the exec session, on the
\* channel of the host's log viewer, or on the session's output
PipeWriteInFlight == execPc = "write"
ChannelWriteInFlight == logs.server = "select"
OutputWriteInFlight == srv.output = "rpc"

\* C32: with the context cancelled, a write in flight on a forwarded pipe or
\* on a sub-stream channel returns (dropping its frame) instead of blocking
\* for ever.
C32_CancelledWritesReturn ==
    /\ (ctxDone /\ PipeWriteInFlight) ~> ~PipeWriteInFlight
    /\ (ctxDone /\ ChannelWriteInFlight) ~> ~ChannelWriteInFlight
    /\ (ctxDone /\ OutputWriteInFlight) ~> ~OutputWriteInFlight

\* ---- C33
\* C33: on a manager given only one of the two collectors, DestroyAll (the
\* rollback inside a failing CreateAll included) returns normally: it never
\* panics on the collector that was not given.
C33_DestroyAllSparesMissingCollector ==
    (dcr.isNil # dtr.isNil) => pc # "panicked"

\* ---- C34
\* DestroyAll is called on a manager whose last operation was a DestroyAll
\* that returned no error
DestroyAllAgain ==
    /\ Idle("DestroyAll") /\ resultErr = <<>>
    /\ op' = "DestroyAll" /\ nOps' = nOps + 1

\* C34: a DestroyAll called right after a DestroyAll that succeeded plans to
\* destroy nothing, so it invokes no destroy callback: the resources the
\* first call destroyed count as having no state.
C34_SecondDestroyAllInvokesNothing ==
    [][DestroyAllAgain => destroyOrder' = <<>>]_vars

\* ---- C35
\* DestroyAll is called again on a manager whose last operation was a
\* DestroyAll in which a destroy callback failed
DestroyAllRetry ==
    /\ Idle("DestroyAll") /\ destroyErr # <<>>
    /\ op' = "DestroyAll" /\ nOps' = nOps + 1

\* C35: the retry of a DestroyAll that failed partway plans to destroy only
\* resources whose destroy callback has not returned success yet: none of
\* the callbacks that succeeded in the failed call is invoked again.
C35_RetrySkipsDestroyed ==
    [][DestroyAllRetry => Range(destroyOrder') \cap destroyOk = {}]_vars

\* ---- C36
\* C36: a CreateAll on a manager with a declared resources collector adds
\* every resource to the collector at most once, whether it succeeds or
\* fails and rolls back: the step on which it returns adds at most one
\* entry per resource and no earlier step of the call adds any.
C36_CreateAllDeclaresAtMostOnce ==
    [][(op' = "CreateAll" /\ ~dcr.isNil /\ pc' # "panicked") =>
          IF pc' = "idle"
          THEN \A r \in Resources : DeclaredAdded(r) <= 1
          ELSE dcr' = dcr]_vars

\* ---- C37
\* the first stored entry at which LoadState stops with an error
FirstBad(s) ==
    FirstOf(UnknownEntries(s) \cup {i \in 1..Len(s.Resources) : LoadFails(s, i)})
\* the stored entries before the i-th that carry a state for r
LoadedBefore(s, i, r) ==
    {j \in 1..(i - 1) : s.Resources[j].Name = r /\ ~s.Resources[j].Raw.isNil}

C38_DestroyReturnsRPCError ==
    \A i \in 1..Len(client.result) :
        client.rpc[i].err # "nil" => client.result[i] = client.rpc[i].err

\* ---- C39
\* the runs of the cleanup function id
RunsOf(id) == {j \in 1..Len(client.runs) : client.runs[j].id = id}

\* C39: between the RPCs made through one function, every cleanup function
\* registered through Cleanup.Do has run exactly once, at the completion of
\* the RPC during which it was registered, however many RPCs were made and
\* however often Close was called.
C39_CleanupRunsExactlyOnce ==
    client.pc = "idle" =>
        \A i \in 1..Len(client.f) :
            /\ Cardinality(RunsOf(client.f[i].id)) = 1
            /\ \A j \in RunsOf(client.f[i].id) : client.runs[j].at = client.f[i].rpc

\* ---- C40
\* the positions of the frames of kind k on the exec input stream
FramesOf(k) == {i \in 1..Len(execIn) : execIn[i] = k}

\* C40: execServer.Input sends the input-closed sentinel at most once, only
\* after the session's stdin has reached its end, and after a data frame
\* for every read of stdin that returned data; it sends no data frame after
\* the sentinel.
C40_SentinelOnceAfterAllData ==
    srv.loop # "none" =>
        /\ Cardinality(FramesOf("InputClosed")) <= 1
        /\ \A i \in FramesOf("InputClosed") :
              /\ srv.eof /\ srv.read = srv.chunks /\ srv.reader = "done"
              /\ Cardinality({j \in FramesOf("Data") : j < i}) = srv.read
              /\ \A j \in FramesOf("Data") : j < i

\* the sentinel was sent after two data frames and a window size
C40_Witness ==
    /\ srv.loop # "none"
    /\ FramesOf("InputClosed") # {}
    /\ Cardinality(FramesOf("Data")) = 2
    /\ FramesOf("WindowSize") # {}

====
